---- MODULE Spec2Model ----
(***************************************************************************)
(* Lifecycle of the resources of the ECE Terraform provider: the Create,    *)
(* Read, Update and Delete handlers of ece_elasticsearch_cluster            *)
(* (resource_elasticsearch_cluster.go) and of ece_cluster                   *)
(* (resource_ece_cluster.go) over the ECE client (ece_client.go) and an     *)
(* arbitrary control plane that answers every request with one of a small   *)
(* set of responses.  Every request a handler sends is one step.            *)
(***************************************************************************)
EXTENDS Integers, Sequences, FiniteSets, TLC

-----------------------------------------------------------------------------
(* Bounds of the model *)

\* greatest number of reads one wait loop issues before its timeout elapses
MaxPolls == 3

\* greatest number of elements of a cluster_topology list, when the elements
\* come from PairElements
MaxTopology == 2

\* greatest zone count of a topology element or of a plan
MaxZoneCount == 3

-----------------------------------------------------------------------------
(* Values *)

Names == {"n1", "n2"}
Versions == {"v1", "v2"}
EsId == "es1"
KbId == "kb1"
EsUser == "elastic"
EsPass == "secret"

\* the attributes of the resource schema that the handlers touch; plan is
\* kept as its elasticsearch version ("" : no elasticsearch block), kibana
\* as the presence of the kibana block
EmptyAttrs ==
  [id |-> "", cluster_name |-> "", plan |-> "", kibana |-> FALSE,
   elasticsearch_username |-> "", elasticsearch_password |-> "",
   kibana_cluster_id |-> ""]

Configs == [cluster_name : Names, plan : Versions \cup {""}, kibana : BOOLEAN]

NoConfig == [cluster_name |-> "", plan |-> "", kibana |-> FALSE]

\* bodies of responses
NoBody == [t |-> "none"]
RawBody == [t |-> "raw"]
Garbage == [t |-> "garbage"]

CrudBody(kid) ==
  [t |-> "crud", elasticsearch_cluster_id |-> EsId, kibana_cluster_id |-> kid,
   username |-> EsUser, password |-> EsPass]

KibanaCrudBody ==
  [t |-> "crud", elasticsearch_cluster_id |-> "", kibana_cluster_id |-> KbId,
   username |-> "", password |-> ""]

InfoBody(status, name, version, kibanas) ==
  [t |-> "info", status |-> status, cluster_name |-> name, plan |-> version,
   kibanas |-> kibanas]

\* a step of a plan attempt log: status and the messages of its info_log
Step(status, msgs) == [status |-> status, info_log |-> msgs]

\* the plan attempt logs the control plane answers with in the lifecycle
ActivityLogs ==
  { <<>>,
    << Step("error", <<"m1", "m2">>) >>,
    << Step("success", <<"m0">>), Step("error", <<"m1", "m2">>) >>,
    << Step("error", <<"m1">>), Step("success", <<"m2">>), Step("warning", <<"m3">>) >> }

ActivityBody(healthy, log) ==
  [t |-> "activity", healthy |-> healthy, step_log |-> log]

Resp(code, body) == [code |-> code, body |-> body]

\* code 0 stands for a transport failure: no response was received
TransportFailure == Resp(0, NoBody)

NoErr == [kind |-> "none", detail |-> <<>>]
Err(kind, detail) == [kind |-> kind, detail |-> detail]

Ok(v) == [err |-> NoErr, val |-> v]
Fail(e) == [err |-> e, val |-> NoBody]

\* the ECEClient of ece_client.go: its credentials, the flag that tells an
\* Elastic Cloud target from an ECE one, and the token Login stores
Username == "admin"
Password == "password"
ECEClient(isElasticCloud) ==
  [Username |-> Username, Password |-> Password,
   IsElasticCloud |-> isElasticCloud, AuthToken |-> ""]

\* the ECEClient of the ece_cluster resource, which has neither
LegacyECEClient == [username |-> Username, password |-> Password]

-----------------------------------------------------------------------------
VARIABLES
  state,    \* the attributes Terraform keeps for the resource between handlers
  config,   \* the desired configuration of the running handler
  d,        \* the schema.ResourceData of the running handler
  partial,  \* d.Partial mode and the keys given to d.SetPartial
  res,      \* the resource type under management, "" when there is none
  op,       \* the running handler, "none" between handlers
  pc,       \* its position
  crud,     \* the create response the handler holds
  kid,      \* updateKibanaCluster's local kibanaClusterID, which starts as
            \* the kibana_cluster_id of d
  polls,    \* reads issued by the running wait loop
  trace,    \* the requests of this invocation, in order, with their answers
  req,      \* the body of the last request, where a handler fills it in
  resp,     \* the last response received
  client,   \* the ECEClient: its credentials, capability flag and token
  other,    \* the handler of a second resource that holds the same client,
            \* while it is not the one taking steps
  unrecorded, \* the desired state of the Update that failed after the control
            \* plane had created its companion, while only Reads followed it
  err       \* the error the handler returned

vars ==
  <<state, res, config, d, partial, op, pc, crud, kid, polls, trace, req, resp,
    client, other, unrecorded, err>>

NoPartial == [on |-> FALSE, keys |-> {}]

\* the variables of a handler that has not started, for a resource with the
\* attributes attrs of type r in the state
Idle(attrs, r) ==
  [state |-> attrs, res |-> r, config |-> NoConfig, d |-> EmptyAttrs,
   partial |-> NoPartial, op |-> "none", pc |-> "idle", crud |-> NoBody,
   kid |-> "", polls |-> 0, trace |-> <<>>, req |-> NoBody,
   resp |-> Resp(0, NoBody), err |-> NoErr]

Init ==
  /\ state = EmptyAttrs
  /\ res = ""
  /\ config = NoConfig
  /\ d = EmptyAttrs
  /\ partial = NoPartial
  /\ op = "none"
  /\ pc = "idle"
  /\ crud = NoBody
  /\ kid = ""
  /\ polls = 0
  /\ trace = <<>>
  /\ req = NoBody
  /\ resp = Resp(0, NoBody)
  /\ client = ECEClient(FALSE)
  /\ other = Idle(EmptyAttrs, "")
  /\ unrecorded = NoConfig
  /\ err = NoErr

-----------------------------------------------------------------------------
(* The control plane: the responses it can give to each request *)

CreateResponses ==
  {TransportFailure, Resp(201, CrudBody("")), Resp(201, CrudBody(KbId)),
   Resp(201, Garbage), Resp(200, CrudBody("")), Resp(400, RawBody)}

KibanaCreateResponses ==
  {TransportFailure, Resp(201, KibanaCrudBody), Resp(201, Garbage),
   Resp(400, RawBody)}

\* answers to a read of a cluster while a wait loop polls it
PollResponses(statuses) ==
  {TransportFailure, Resp(404, RawBody), Resp(500, RawBody), Resp(200, Garbage)}
    \cup {Resp(200, InfoBody(s, "n1", "v1", <<>>)) : s \in statuses}

\* another value of a two-valued attribute
Other(x, S) == CHOOSE y \in S : y # x

\* a second Kibana cluster the control plane reports for the cluster
OtherKbId == "kb2"

\* answers to the read of resourceElasticsearchClusterRead: the cluster as
\* it was configured, with no, one or two associated Kibana clusters, or a
\* cluster whose name and version were changed behind Terraform's back
InfoResponses(dd) ==
  {TransportFailure, Resp(404, RawBody), Resp(500, RawBody), Resp(200, Garbage)}
    \cup {Resp(200, InfoBody("started", dd.cluster_name,
                             IF dd.plan = "" THEN "v1" ELSE dd.plan, k)) :
            k \in {<<>>, <<KbId>>, <<KbId, OtherKbId>>}}
    \cup {Resp(200, InfoBody("started", Other(dd.cluster_name, Names),
                             Other(dd.plan, Versions), <<>>))}

\* a healthy plan can still log steps that did not succeed
HealthyLogs ==
  { <<>>, << Step("success", <<"m0">>), Step("error", <<"m1", "m2">>) >> }

ActivityResponses ==
  {TransportFailure, Resp(404, RawBody), Resp(500, RawBody), Resp(200, Garbage)}
    \cup {Resp(200, ActivityBody(FALSE, l)) : l \in ActivityLogs}
    \cup {Resp(200, ActivityBody(TRUE, l)) : l \in HealthyLogs}

\* answers to a request that has no response value (plan update, metadata
\* update, shutdown, delete)
PlainResponses ==
  {TransportFailure, Resp(200, RawBody), Resp(202, RawBody),
   Resp(404, RawBody), Resp(500, RawBody)}

-----------------------------------------------------------------------------
(* The client (ece_client.go): what each operation makes of a response *)

\* a client that takes every 2xx status for success
Expect_AcceptsAll2xx(r, codes) ==
  IF r.code = 0 THEN Fail(Err("transport", <<>>))
  ELSE IF r.code \notin codes \cup {200, 201, 202} THEN Fail(Err("operation", <<r.body>>))
  ELSE Ok(r)

\* the common shape: HTTPClient.Do fails, or the status is not accepted
Expect(r, codes) ==
  IF r.code = 0 THEN Fail(Err("transport", <<>>))
  ELSE IF r.code \notin codes THEN Fail(Err("operation", <<r.body>>))
  ELSE Ok(r)

CreateElasticsearchCluster(r) ==
  IF r.code = 0 THEN Fail(Err("transport", <<>>))
  ELSE IF r.code # 201 THEN Fail(Err("operation", <<r.body>>))
  ELSE IF r.body.t # "crud" THEN Fail(Err("decoding", <<>>))
  ELSE Ok(r.body)

CreateKibanaCluster(r) ==
  IF r.code = 0 THEN Fail(Err("transport", <<>>))
  ELSE IF r.code # 201 THEN Fail(Err("operation", <<r.body>>))
  ELSE IF r.body.t # "crud" THEN Fail(Err("decoding", <<>>))
  ELSE Ok(r.body)

GetElasticsearchCluster(r) == Expect(r, {200, 404})
GetKibanaCluster(r) == Expect(r, {200, 404})
GetElasticsearchClusterPlanActivity(r) == Expect(r, {200, 404})
GetKibanaClusterPlanActivity(r) == Expect(r, {200, 404})
UpdateElasticsearchCluster(r) == Expect(r, {202})
UpdateKibanaCluster(r) == Expect(r, {202})
UpdateElasticsearchClusterMetadata(r) == Expect(r, {200})
UpdateKibanaClusterMetadata(r) == Expect(r, {200})
ShutdownElasticsearchCluster(r) == Expect(r, {202})
ShutdownKibanaCluster(r) == Expect(r, {202})

\* the DELETE request that ends DeleteElasticsearchCluster / DeleteKibanaCluster
DeleteRequest(r) == Expect(r, {200})

\* a polling function that asks for another read when the read failed
PollOnce_RetriesFailure(g, r, status, allowMissing) ==
  IF g.err # NoErr THEN [res |-> "retry", err |-> NoErr]
  ELSE IF r.code = 404 /\ allowMissing THEN [res |-> "ok", err |-> NoErr]
  ELSE IF r.code = 200
    THEN IF r.body.t # "info" THEN [res |-> "fail", err |-> Err("decoding", <<>>)]
         ELSE IF r.body.status = status THEN [res |-> "ok", err |-> NoErr]
         ELSE [res |-> "retry", err |-> NoErr]
  ELSE [res |-> "retry", err |-> NoErr]

\* one run of the function that WaitFor...ClusterStatus hands to
\* resource.Retry: "ok" ends the wait, "retry" asks for another read
\* (RetryableError), "fail" ends it with the error (NonRetryableError)
PollOnce(g, r, status, allowMissing) ==
  IF g.err # NoErr THEN [res |-> "fail", err |-> g.err]
  ELSE IF r.code = 404 /\ allowMissing THEN [res |-> "ok", err |-> NoErr]
  ELSE IF r.code = 200
    THEN IF r.body.t # "info" THEN [res |-> "fail", err |-> Err("decoding", <<>>)]
         ELSE IF r.body.status = status THEN [res |-> "ok", err |-> NoErr]
         ELSE [res |-> "retry", err |-> NoErr]
  ELSE [res |-> "retry", err |-> NoErr]

\* a wait that does not stop on the status it waits for
WaitForElasticsearchClusterStatus_NoStop(r, status, allowMissing) ==
  LET p == PollOnce(GetElasticsearchCluster(r), r, status, allowMissing) IN
  IF p.res = "ok" /\ r.code = 200 THEN [res |-> "retry", err |-> NoErr] ELSE p

\* a wait that takes a missing cluster for reached whatever it waits for
WaitForElasticsearchClusterStatus_MissingReached(r, status, allowMissing) ==
  PollOnce(GetElasticsearchCluster(r), r, status, TRUE)

WaitForElasticsearchClusterStatus(r, status, allowMissing) ==
  PollOnce(GetElasticsearchCluster(r), r, status, allowMissing)

WaitForKibanaClusterStatus(r, status, allowMissing) ==
  PollOnce(GetKibanaCluster(r), r, status, allowMissing)

-----------------------------------------------------------------------------
(* Plan activity validation *)

RECURSIVE FailedLogMessages_AllSteps(_)
\* the messages of every step, the status not looked at
FailedLogMessages_AllSteps(log) ==
  IF log = <<>> THEN <<>>
  ELSE Head(log).info_log \o FailedLogMessages_AllSteps(Tail(log))

RECURSIVE FailedLogMessages(_)
\* the messages of the steps whose status is not "success", in step order
FailedLogMessages(log) ==
  IF log = <<>> THEN <<>>
  ELSE (IF Head(log).status # "success" THEN Head(log).info_log ELSE <<>>)
         \o FailedLogMessages(Tail(log))

\* a validation that also fails a healthy plan that logged a failed step
ValidatePlanActivity_ChecksSteps(g, r) ==
  IF g.err # NoErr THEN g.err
  ELSE IF r.code = 404 THEN Err("notfound", <<>>)
  ELSE IF r.body.t # "activity" THEN Err("decoding", <<>>)
  ELSE IF ~r.body.healthy \/ FailedLogMessages(r.body.step_log) # <<>>
    THEN Err("planfailure", FailedLogMessages(r.body.step_log))
  ELSE NoErr

ValidatePlanActivity(g, r) ==
  IF g.err # NoErr THEN g.err
  ELSE IF r.code = 404 THEN Err("notfound", <<>>)
  ELSE IF r.body.t # "activity" THEN Err("decoding", <<>>)
  ELSE IF ~r.body.healthy THEN Err("planfailure", FailedLogMessages(r.body.step_log))
  ELSE NoErr

validateElasticsearchClusterPlanActivity(r) ==
  ValidatePlanActivity(GetElasticsearchClusterPlanActivity(r), r)

validateKibanaClusterPlanActivity(r) ==
  ValidatePlanActivity(GetKibanaClusterPlanActivity(r), r)

-----------------------------------------------------------------------------
(* Expanders, as far as the lifecycle depends on them *)

\* expandElasticsearchConfiguration fails when the plan has no elasticsearch
\* block
expandElasticsearchClusterPlan(c) ==
  IF c.plan = "" THEN Fail(Err("config", <<>>)) ELSE Ok([version |-> c.plan])

\* nil when the configuration has no kibana block
expandKibanaCreateRequest(c) == c.kibana

-----------------------------------------------------------------------------
(* What Terraform keeps when a handler returns (helper/schema):             *)
(* ResourceData.State() is nil when the id is empty; in partial mode only   *)
(* the keys given to SetPartial are taken from d; a refresh that fails      *)
(* keeps the prior state; a successful delete removes the resource.         *)

Persist(o, nd, np, e) ==
  CASE o \in {"create", "ece_create"} -> IF nd.id = "" THEN EmptyAttrs ELSE nd
    [] o \in {"update", "ece_update"} ->
         IF nd.id = "" THEN EmptyAttrs
         ELSE IF np.on
           THEN [k \in DOMAIN nd |->
                   IF k = "id" \/ k \in np.keys THEN nd[k] ELSE state[k]]
           ELSE nd
    [] o \in {"read", "ece_read"} ->
         IF e # NoErr THEN state
         ELSE IF nd.id = "" THEN EmptyAttrs ELSE nd
    [] OTHER -> IF e = NoErr THEN EmptyAttrs ELSE nd

-----------------------------------------------------------------------------
(* Building blocks of the handler steps *)

\* what the trace keeps of a response body
Summary(body) ==
  CASE body.t = "info" -> body.status
    [] body.t = "activity" -> IF body.healthy THEN "healthy" ELSE "unhealthy"
    [] OTHER -> body.t

Entry(k, t, code, status) == [k |-> k, t |-> t, code |-> code, status |-> status]

\* request k is sent for cluster t ("es": elasticsearch, "kb": kibana) with
\* body q and answered by r
SentWith(k, t, q, r) ==
  /\ trace' = Append(trace, Entry(k, t, r.code, Summary(r.body)))
  /\ req' = q
  /\ resp' = r

Sent(k, t, r) == SentWith(k, t, NoBody, r)

\* time passes: a settle delay ("sleep") or the timeout of a wait loop
Elapsed(k, t) ==
  /\ trace' = Append(trace, Entry(k, t, 0, ""))
  /\ UNCHANGED <<req, resp>>

\* the handler returns e, leaving nd in its ResourceData
Return(e, nd, np) ==
  /\ pc' = "done"
  /\ err' = e
  /\ d' = nd
  /\ partial' = np
  /\ state' = Persist(op, nd, np, e)
  /\ res' = IF Persist(op, nd, np, e).id = "" THEN "" ELSE res
  /\ polls' = 0

\* the handler goes on at position p
Goto(p, nd, np) ==
  /\ pc' = p
  /\ d' = nd
  /\ partial' = np
  /\ polls' = 0
  /\ UNCHANGED <<err, state, res>>

\* a wait without a timeout: after the reads of the bound it waits on
WaitLoop_NoTimeout(t, P, okpc, failpc) ==
  /\ polls < MaxPolls
  /\ \E r \in DOMAIN P :
       LET p == P[r]
       IN /\ Sent("poll", t, r)
          /\ CASE p.res = "ok" -> Goto(okpc, d, partial)
               [] p.res = "retry" ->
                    /\ polls' = polls + 1
                    /\ UNCHANGED <<pc, d, partial, err, state, res>>
               [] OTHER -> IF failpc = "" THEN Return(p.err, d, partial)
                           ELSE Goto(failpc, d, partial)

\* resource.Retry around the polling function P, given as its result on
\* each answer to the read: reads go on until one ends
\* the wait or the timeout elapses; the first read is always issued.  With
\* failpc = "" an error of the wait is returned by the handler, otherwise
\* the handler ignores it and goes on at failpc.
WaitLoop(t, P, okpc, failpc) ==
  \/ /\ polls < MaxPolls
     /\ \E r \in DOMAIN P :
          LET p == P[r]
          IN /\ Sent("poll", t, r)
             /\ CASE p.res = "ok" -> Goto(okpc, d, partial)
                  [] p.res = "retry" ->
                       /\ polls' = polls + 1
                       /\ UNCHANGED <<pc, d, partial, err, state, res>>
                  [] OTHER -> IF failpc = "" THEN Return(p.err, d, partial)
                              ELSE Goto(failpc, d, partial)
  \/ /\ polls >= 1
     /\ Elapsed("timeout", t)
     /\ IF failpc = "" THEN Return(Err("timeout", <<>>), d, partial)
        ELSE Goto(failpc, d, partial)

-----------------------------------------------------------------------------
(* resourceElasticsearchClusterRead *)

\* a Read that drops every attribute of a cluster it does not find
resourceElasticsearchClusterRead_ClearsAll(dd, r) ==
  LET g == GetElasticsearchCluster(r) IN
  IF g.err # NoErr THEN [err |-> g.err, d |-> dd]
  ELSE IF r.code = 404 THEN [err |-> NoErr, d |-> EmptyAttrs]
  ELSE IF r.body.t # "info" THEN [err |-> Err("decoding", <<>>), d |-> dd]
  ELSE [err |-> NoErr,
        d |-> [dd EXCEPT !.cluster_name = r.body.cluster_name,
                         !.plan = r.body.plan,
                         !.kibana_cluster_id =
                            IF Len(r.body.kibanas) > 0 THEN r.body.kibanas[1]
                            ELSE @]]

\* a Read that clears the Kibana cluster id when none is reported and takes
\* the last of those reported
resourceElasticsearchClusterRead_LastOrNone(dd, r) ==
  LET g == GetElasticsearchCluster(r) IN
  IF g.err # NoErr THEN [err |-> g.err, d |-> dd]
  ELSE IF r.code = 404 THEN [err |-> NoErr, d |-> [dd EXCEPT !.id = ""]]
  ELSE IF r.body.t # "info" THEN [err |-> Err("decoding", <<>>), d |-> dd]
  ELSE [err |-> NoErr,
        d |-> [dd EXCEPT !.cluster_name = r.body.cluster_name,
                         !.plan = r.body.plan,
                         !.kibana_cluster_id =
                            IF Len(r.body.kibanas) > 0
                              THEN r.body.kibanas[Len(r.body.kibanas)]
                            ELSE ""]]

\* a Read that also refreshes the credentials, which the cluster info lacks
resourceElasticsearchClusterRead_ResetsCredentials(dd, r) ==
  LET g == GetElasticsearchCluster(r) IN
  IF g.err # NoErr THEN [err |-> g.err, d |-> dd]
  ELSE IF r.code = 404 THEN [err |-> NoErr, d |-> [dd EXCEPT !.id = ""]]
  ELSE IF r.body.t # "info" THEN [err |-> Err("decoding", <<>>), d |-> dd]
  ELSE [err |-> NoErr,
        d |-> [dd EXCEPT !.cluster_name = r.body.cluster_name,
                         !.plan = r.body.plan,
                         !.elasticsearch_username = "",
                         !.elasticsearch_password = "",
                         !.kibana_cluster_id =
                            IF Len(r.body.kibanas) > 0 THEN r.body.kibanas[1]
                            ELSE @]]

\* the handler's result on response r, from ResourceData dd
resourceElasticsearchClusterRead(dd, r) ==
  LET g == GetElasticsearchCluster(r) IN
  IF g.err # NoErr THEN [err |-> g.err, d |-> dd]
  ELSE IF r.code = 404 THEN [err |-> NoErr, d |-> [dd EXCEPT !.id = ""]]
  ELSE IF r.body.t # "info" THEN [err |-> Err("decoding", <<>>), d |-> dd]
  ELSE [err |-> NoErr,
        d |-> [dd EXCEPT !.cluster_name = r.body.cluster_name,
                         !.plan = r.body.plan,
                         !.kibana_cluster_id =
                            IF Len(r.body.kibanas) > 0 THEN r.body.kibanas[1]
                            ELSE @]]

\* the handler that returned was an Update that failed in the wait or in the
\* plan-activity check of a companion its create request had been answered
\* for with 201
CompanionLeftBehind ==
  /\ op = "update" /\ pc = "done" /\ err # NoErr
  /\ trace # <<>>
  /\ trace[Len(trace)].t = "kb"
  /\ \E i \in 1..(Len(trace) - 1) :
       trace[i].k = "create" /\ trace[i].t = "kb" /\ trace[i].code = 201

\* what handler o starts with, given the desired state c: the desired state
\* of such an Update when it is the handler that returned, or when only
\* Reads that found the cluster have run since; it is kept for a Read and
\* for an Update with that same desired state
Unrecorded(o, c) ==
  LET u == IF CompanionLeftBehind THEN config
           ELSE IF op = "read" /\ state.id # "" THEN unrecorded ELSE NoConfig
  IN IF o = "read" \/ (o = "update" /\ u = c) THEN u ELSE NoConfig

\* a handler that first stores a token of its own in the client
Start_StoresToken(o, c, nd) ==
  /\ pc \in {"idle", "done"}
  /\ op' = o
  /\ config' = c
  /\ client' = [client EXCEPT !.AuthToken = o]
  /\ other' = other
  /\ unrecorded' = Unrecorded(o, c)
  /\ d' = nd
  /\ partial' = NoPartial
  /\ crud' = NoBody
  /\ kid' = ""
  /\ polls' = 0
  /\ trace' = <<>>
  /\ req' = NoBody
  /\ resp' = Resp(0, NoBody)
  /\ err' = NoErr
  /\ UNCHANGED state

\* a handler starts between two handlers
Start(o, c, nd) ==
  /\ pc \in {"idle", "done"}
  /\ op' = o
  /\ config' = c
  /\ client' = client
  /\ other' = other
  /\ unrecorded' = Unrecorded(o, c)
  /\ d' = nd
  /\ partial' = NoPartial
  /\ crud' = NoBody
  /\ kid' = ""
  /\ polls' = 0
  /\ trace' = <<>>
  /\ req' = NoBody
  /\ resp' = Resp(0, NoBody)
  /\ err' = NoErr
  /\ UNCHANGED state

StateConfig ==
  [cluster_name |-> state.cluster_name, plan |-> state.plan, kibana |-> state.kibana]

BeginRead ==
  /\ state.id # ""
  /\ res = "elasticsearch_cluster"
  /\ Start("read", StateConfig, state)
  /\ pc' = "read"
  /\ UNCHANGED res

\* the read of the handler, also the last step of Create and Update
ReadGet ==
  /\ pc = "read"
  /\ \E r \in InfoResponses(d) :
       LET out == resourceElasticsearchClusterRead(d, r) IN
       /\ Sent("read", "es", r)
       /\ Return(out.err, out.d, partial)
  /\ UNCHANGED <<client, other, unrecorded, config, op, crud, kid>>

-----------------------------------------------------------------------------
(* resourceElasticsearchClusterCreate *)

\* the configurations Create is given
CreateConfigs == {c \in Configs : c.cluster_name = "n1" /\ c.plan \in {"", "v1"}}

BeginCreate ==
  /\ state.id = ""
  /\ \E c \in CreateConfigs :
       Start("create", c,
             [EmptyAttrs EXCEPT !.cluster_name = c.cluster_name,
                                !.plan = c.plan, !.kibana = c.kibana])
  /\ pc' = "c_expand"
  /\ res' = "elasticsearch_cluster"

\* expandElasticsearchClusterPlan and expandKibanaCreateRequest
CreateExpand ==
  /\ pc = "c_expand"
  /\ LET e == expandElasticsearchClusterPlan(config) IN
       IF e.err # NoErr THEN Return(e.err, d, partial)
       ELSE Goto("c_submit", d, partial)
  /\ UNCHANGED <<client, other, unrecorded, config, op, crud, kid, trace, req, resp>>

\* a Create that sends the create request again after a transport failure
CreateSubmit_SendsAgain ==
  /\ pc = "c_submit"
  /\ \E r \in CreateResponses :
       LET c == CreateElasticsearchCluster(r) IN
       /\ Sent("create", "es", r)
       /\ IF c.err # NoErr
            THEN /\ IF r.code = 0 /\ trace = <<>>
                      THEN Goto("c_submit", d, partial)
                      ELSE Return(c.err, d, partial)
                 /\ crud' = crud
            ELSE Goto("c_wait", d, partial) /\ crud' = c.val
  /\ UNCHANGED <<client, other, unrecorded, config, op, kid>>

CreateSubmit ==
  /\ pc = "c_submit"
  /\ \E r \in CreateResponses :
       LET c == CreateElasticsearchCluster(r) IN
       /\ Sent("create", "es", r)
       /\ IF c.err # NoErr
            THEN Return(c.err, d, partial) /\ crud' = crud
            ELSE Goto("c_wait", d, partial) /\ crud' = c.val
  /\ UNCHANGED <<client, other, unrecorded, config, op, kid>>

\* a Create that drops the error of the wait, as Delete does
CreateWait_DropsError ==
  /\ pc = "c_wait"
  /\ WaitLoop("es", [r \in PollResponses({"pending", "started"}) |->
                      WaitForElasticsearchClusterStatus(r, "started", FALSE)],
              "c_activity", "c_activity")
  /\ UNCHANGED <<client, other, unrecorded, config, op, crud, kid>>

CreateWait ==
  /\ pc = "c_wait"
  /\ WaitLoop("es", [r \in PollResponses({"pending", "started"}) |->
                      WaitForElasticsearchClusterStatus(r, "started", FALSE)],
              "c_activity", "")
  /\ UNCHANGED <<client, other, unrecorded, config, op, crud, kid>>

\* a Create that records the Kibana cluster id together with the id of the
\* elasticsearch cluster
CreateActivity_RecordsKibana ==
  /\ pc = "c_activity"
  /\ \E r \in ActivityResponses :
       LET e == validateElasticsearchClusterPlanActivity(r)
           nd == [d EXCEPT !.id = crud.elasticsearch_cluster_id,
                           !.elasticsearch_username = crud.username,
                           !.elasticsearch_password = crud.password,
                           !.kibana_cluster_id = crud.kibana_cluster_id]
       IN /\ Sent("activity", "es", r)
          /\ IF e # NoErr THEN Return(e, d, partial)
             ELSE IF crud.kibana_cluster_id # "" THEN Goto("c_kwait", nd, partial)
             ELSE Goto("read", nd, partial)
  /\ UNCHANGED <<client, other, unrecorded, config, op, crud, kid>>

\* a Create that sets the identity before it looks at the plan activity
CreateActivity_IdBeforeCheck ==
  /\ pc = "c_activity"
  /\ \E r \in ActivityResponses :
       LET e == validateElasticsearchClusterPlanActivity(r)
           nd == [d EXCEPT !.id = crud.elasticsearch_cluster_id,
                           !.elasticsearch_username = crud.username,
                           !.elasticsearch_password = crud.password]
       IN /\ Sent("activity", "es", r)
          /\ IF e # NoErr THEN Return(e, nd, partial)
             ELSE IF crud.kibana_cluster_id # "" THEN Goto("c_kwait", nd, partial)
             ELSE Goto("read", nd, partial)
  /\ UNCHANGED <<client, other, unrecorded, config, op, crud, kid>>

\* validateElasticsearchClusterPlanActivity, then SetId and the credentials
CreateActivity ==
  /\ pc = "c_activity"
  /\ \E r \in ActivityResponses :
       LET e == validateElasticsearchClusterPlanActivity(r)
           nd == [d EXCEPT !.id = crud.elasticsearch_cluster_id,
                           !.elasticsearch_username = crud.username,
                           !.elasticsearch_password = crud.password]
       IN /\ Sent("activity", "es", r)
          /\ IF e # NoErr THEN Return(e, d, partial)
             ELSE IF crud.kibana_cluster_id # "" THEN Goto("c_kwait", nd, partial)
             ELSE Goto("read", nd, partial)
  /\ UNCHANGED <<client, other, unrecorded, config, op, crud, kid>>

CreateKibanaWait ==
  /\ pc = "c_kwait"
  /\ WaitLoop("kb", [r \in PollResponses({"pending", "started"}) |->
                      WaitForKibanaClusterStatus(r, "started", FALSE)],
              "c_kactivity", "")
  /\ UNCHANGED <<client, other, unrecorded, config, op, crud, kid>>

CreateKibanaActivity ==
  /\ pc = "c_kactivity"
  /\ \E r \in ActivityResponses :
       LET e == validateKibanaClusterPlanActivity(r) IN
       /\ Sent("activity", "kb", r)
       /\ IF e # NoErr THEN Return(e, d, partial)
          ELSE Goto("read", [d EXCEPT !.kibana_cluster_id = crud.kibana_cluster_id],
                    partial)
  /\ UNCHANGED <<client, other, unrecorded, config, op, crud, kid>>

-----------------------------------------------------------------------------
(* resourceElasticsearchClusterUpdate *)

HasChange(k) == state[k] # config[k]

\* a SetPartial that records nothing
SetPartial_Nothing(np, k) == np

SetPartial(np, k) == [np EXCEPT !.keys = @ \cup {k}]

\* d.Partial(false), then the final resourceElasticsearchClusterRead
UpdateFinish(nd, np) == Goto("read", nd, [np EXCEPT !.on = FALSE])

\* entry of updateKibanaCluster: no request is sent before the branch is
\* chosen from the persisted kibana_cluster_id and the kibana block
UpdateKibanaSection(np) ==
  IF ~HasChange("kibana") THEN UpdateFinish(d, np)
  ELSE IF d.kibana_cluster_id = ""
    THEN IF expandKibanaCreateRequest(config) THEN Goto("uk_create", d, np)
         ELSE UpdateFinish(d, np)
    ELSE IF expandKibanaCreateRequest(config) THEN Goto("uk_meta", d, np)
         ELSE Goto("uk_shutdown", d, np)

\* d.SetPartial("plan"), then the kibana section
UpdateAfterPlan(np) == UpdateKibanaSection(SetPartial(np, "plan"))

\* an Update that sends the plan whether it changed or not
UpdateAfterName_AlwaysPlan(np) ==
  LET np1 == SetPartial(np, "cluster_name")
      e == expandElasticsearchClusterPlan(config)
  IN IF e.err # NoErr THEN Return(e.err, d, np1)
     ELSE Goto("u_plan", d, np1)

\* d.SetPartial("cluster_name"), then the plan section
UpdateAfterName(np) ==
  LET np1 == SetPartial(np, "cluster_name") IN
  IF HasChange("plan")
    THEN LET e == expandElasticsearchClusterPlan(config) IN
         IF e.err # NoErr THEN Return(e.err, d, np1)
         ELSE Goto("u_plan", d, np1)
    ELSE UpdateAfterPlan(np1)

\* Terraform calls Update only when the configuration differs from the state
BeginUpdate ==
  /\ state.id # ""
  /\ res = "elasticsearch_cluster"
  /\ \E c \in Configs :
       /\ c # StateConfig
       /\ Start("update", c,
                [state EXCEPT !.cluster_name = c.cluster_name,
                              !.plan = c.plan, !.kibana = c.kibana])
  /\ pc' = "u_get"
  /\ UNCHANGED res

\* d.Partial(true) and the read of the cluster that opens Update
UpdateGet ==
  /\ pc = "u_get"
  /\ \E r \in PollResponses({"started"}) :
       LET g == GetElasticsearchCluster(r)
           np == [partial EXCEPT !.on = TRUE]
       IN /\ Sent("read", "es", r)
          /\ kid' = d.kibana_cluster_id
          /\ IF g.err # NoErr THEN Return(g.err, d, np)
             ELSE IF r.code = 404 THEN Return(Err("notfound", <<>>), d, np)
             ELSE IF HasChange("cluster_name") THEN Goto("u_meta", d, np)
             ELSE UpdateAfterName(np)
  /\ UNCHANGED <<client, other, unrecorded, config, op, crud>>

UpdateMetadata ==
  /\ pc = "u_meta"
  /\ \E r \in PlainResponses :
       LET m == UpdateElasticsearchClusterMetadata(r) IN
       /\ Sent("metadata", "es", r)
       /\ IF m.err # NoErr THEN Return(m.err, d, partial)
          ELSE UpdateAfterName(partial)
  /\ kid' = d.kibana_cluster_id
  /\ UNCHANGED <<client, other, unrecorded, config, op, crud>>

UpdatePlan ==
  /\ pc = "u_plan"
  /\ \E r \in PlainResponses :
       LET u == UpdateElasticsearchCluster(r) IN
       /\ Sent("plan", "es", r)
       /\ IF u.err # NoErr THEN Return(u.err, d, partial)
          ELSE Goto("u_sleep", d, partial)
  /\ UNCHANGED <<client, other, unrecorded, config, op, crud, kid>>

\* time.Sleep(5 s): the settle delay elapses
UpdateSleep ==
  /\ pc = "u_sleep"
  /\ Elapsed("sleep", "es")
  /\ Goto("u_wait", d, partial)
  /\ UNCHANGED <<client, other, unrecorded, config, op, crud, kid>>

UpdateWait ==
  /\ pc = "u_wait"
  /\ WaitLoop("es", [r \in PollResponses({"pending", "started"}) |->
                      WaitForElasticsearchClusterStatus(r, "started", FALSE)],
              "u_activity", "")
  /\ UNCHANGED <<client, other, unrecorded, config, op, crud, kid>>

UpdateActivity ==
  /\ pc = "u_activity"
  /\ \E r \in ActivityResponses :
       LET e == validateElasticsearchClusterPlanActivity(r) IN
       /\ Sent("activity", "es", r)
       /\ IF e # NoErr THEN Return(e, d, partial)
          ELSE UpdateAfterPlan(partial)
  /\ kid' = d.kibana_cluster_id
  /\ UNCHANGED <<client, other, unrecorded, config, op, crud>>

-----------------------------------------------------------------------------
(* updateKibanaCluster *)

\* the CreateKibanaRequest of updateKibanaCluster:
\* kibanaRequest.ElasticsearchClusterID = clusterID
CreateKibanaRequest(clusterID) ==
  [t |-> "kibana_request", elasticsearch_cluster_id |-> clusterID]

\* an updateKibanaCluster that records the id of the companion as soon as it
\* is created
UpdateKibanaCreate_RecordsId ==
  /\ pc = "uk_create"
  /\ \E r \in KibanaCreateResponses :
       LET c == CreateKibanaCluster(r) IN
       /\ SentWith("create", "kb", CreateKibanaRequest(d.id), r)
       /\ IF c.err # NoErr
            THEN Return(c.err, d, partial) /\ UNCHANGED <<crud, kid>>
            ELSE /\ Goto("uk_sleep",
                         [d EXCEPT !.kibana_cluster_id = c.val.kibana_cluster_id],
                         SetPartial(partial, "kibana_cluster_id"))
                 /\ crud' = c.val
                 /\ kid' = c.val.kibana_cluster_id
  /\ UNCHANGED <<client, other, unrecorded, config, op>>

UpdateKibanaCreate ==
  /\ pc = "uk_create"
  /\ \E r \in KibanaCreateResponses :
       LET c == CreateKibanaCluster(r) IN
       /\ SentWith("create", "kb", CreateKibanaRequest(d.id), r)
       /\ IF c.err # NoErr
            THEN Return(c.err, d, partial) /\ UNCHANGED <<crud, kid>>
            ELSE /\ Goto("uk_sleep", d, partial)
                 /\ crud' = c.val
                 /\ kid' = c.val.kibana_cluster_id
  /\ UNCHANGED <<client, other, unrecorded, config, op>>

UpdateKibanaMetadata ==
  /\ pc = "uk_meta"
  /\ \E r \in PlainResponses :
       LET m == UpdateKibanaClusterMetadata(r) IN
       /\ Sent("metadata", "kb", r)
       /\ IF m.err # NoErr THEN Return(m.err, d, partial)
          ELSE Goto("uk_plan", d, partial)
  /\ UNCHANGED <<client, other, unrecorded, config, op, crud, kid>>

UpdateKibanaPlan ==
  /\ pc = "uk_plan"
  /\ \E r \in PlainResponses :
       LET u == UpdateKibanaCluster(r) IN
       /\ Sent("plan", "kb", r)
       /\ IF u.err # NoErr THEN Return(u.err, d, partial)
          ELSE Goto("uk_sleep", d, partial)
  /\ UNCHANGED <<client, other, unrecorded, config, op, crud, kid>>

\* DeleteKibanaCluster: shutdown, wait whose result is ignored, delete
UpdateKibanaShutdown ==
  /\ pc = "uk_shutdown"
  /\ \E r \in PlainResponses :
       LET x == ShutdownKibanaCluster(r) IN
       /\ Sent("shutdown", "kb", r)
       /\ IF x.err # NoErr THEN Return(x.err, d, partial)
          ELSE Goto("uk_swait", d, partial)
  /\ UNCHANGED <<client, other, unrecorded, config, op, crud, kid>>

UpdateKibanaShutdownWait ==
  /\ pc = "uk_swait"
  /\ WaitLoop("kb", [r \in PollResponses({"started", "stopped"}) |->
                      WaitForKibanaClusterStatus(r, "stopped", TRUE)],
              "uk_delete", "uk_delete")
  /\ UNCHANGED <<client, other, unrecorded, config, op, crud, kid>>

\* an updateKibanaCluster that keeps the id of the Kibana cluster it deleted
UpdateKibanaDelete_KeepsId ==
  /\ pc = "uk_delete"
  /\ \E r \in PlainResponses :
       LET x == DeleteRequest(r) IN
       /\ Sent("delete", "kb", r)
       /\ IF x.err # NoErr
            THEN Return(x.err, d, partial) /\ UNCHANGED kid
            ELSE /\ UpdateFinish(d, partial)
                 /\ kid' = ""
  /\ UNCHANGED <<client, other, unrecorded, config, op, crud>>

\* the DELETE request, then kibanaClusterID = "" and
\* d.Set("kibana_cluster_id", nil); nothing is left to wait for
UpdateKibanaDelete ==
  /\ pc = "uk_delete"
  /\ \E r \in PlainResponses :
       LET x == DeleteRequest(r) IN
       /\ Sent("delete", "kb", r)
       /\ IF x.err # NoErr
            THEN Return(x.err, d, partial) /\ UNCHANGED kid
            ELSE /\ UpdateFinish([d EXCEPT !.kibana_cluster_id = ""], partial)
                 /\ kid' = ""
  /\ UNCHANGED <<client, other, unrecorded, config, op, crud>>

\* time.Sleep(5 s) before the Kibana cluster is polled
UpdateKibanaSleep ==
  /\ pc = "uk_sleep"
  /\ Elapsed("sleep", "kb")
  /\ Goto("uk_wait", d, partial)
  /\ UNCHANGED <<client, other, unrecorded, config, op, crud, kid>>

UpdateKibanaWait ==
  /\ pc = "uk_wait"
  /\ WaitLoop("kb", [r \in PollResponses({"pending", "started"}) |->
                      WaitForKibanaClusterStatus(r, "started", FALSE)],
              "uk_activity", "")
  /\ UNCHANGED <<client, other, unrecorded, config, op, crud, kid>>

UpdateKibanaActivity ==
  /\ pc = "uk_activity"
  /\ \E r \in ActivityResponses :
       LET e == validateKibanaClusterPlanActivity(r) IN
       /\ Sent("activity", "kb", r)
       /\ IF e # NoErr THEN Return(e, d, partial)
          ELSE UpdateFinish([d EXCEPT !.kibana_cluster_id = kid], partial)
  /\ UNCHANGED <<client, other, unrecorded, config, op, crud, kid>>

-----------------------------------------------------------------------------
(* resourceElasticsearchClusterDelete: client.DeleteElasticsearchCluster *)

BeginDelete ==
  /\ state.id # ""
  /\ res = "elasticsearch_cluster"
  /\ Start("delete", StateConfig, state)
  /\ pc' = "d_shutdown"
  /\ UNCHANGED res

DeleteShutdown ==
  /\ pc = "d_shutdown"
  /\ \E r \in PlainResponses :
       LET x == ShutdownElasticsearchCluster(r) IN
       /\ Sent("shutdown", "es", r)
       /\ IF x.err # NoErr THEN Return(x.err, d, partial)
          ELSE Goto("d_wait", d, partial)
  /\ UNCHANGED <<client, other, unrecorded, config, op, crud, kid>>

\* a Delete that returns the error of the wait
DeleteWait_ReturnsError ==
  /\ pc = "d_wait"
  /\ WaitLoop("es", [r \in PollResponses({"started", "stopped"}) |->
                      WaitForElasticsearchClusterStatus(r, "stopped", TRUE)],
              "d_delete", "")
  /\ UNCHANGED <<client, other, unrecorded, config, op, crud, kid>>

\* the result of the wait is dropped
DeleteWait ==
  /\ pc = "d_wait"
  /\ WaitLoop("es", [r \in PollResponses({"started", "stopped"}) |->
                      WaitForElasticsearchClusterStatus(r, "stopped", TRUE)],
              "d_delete", "d_delete")
  /\ UNCHANGED <<client, other, unrecorded, config, op, crud, kid>>

\* a Delete that deletes a recorded Kibana cluster before the elasticsearch
\* cluster
DeleteDelete_KibanaFirst ==
  /\ pc = "d_delete"
  /\ \E r \in PlainResponses :
       IF d.kibana_cluster_id # "" /\ trace[Len(trace)].t = "es"
       THEN /\ Sent("delete", "kb", r)
            /\ Goto("d_delete", d, partial)
       ELSE LET x == DeleteRequest(r) IN
            /\ Sent("delete", "es", r)
            /\ Return(x.err, d, partial)
  /\ UNCHANGED <<client, other, unrecorded, config, op, crud, kid>>

DeleteDelete ==
  /\ pc = "d_delete"
  /\ \E r \in PlainResponses :
       LET x == DeleteRequest(r) IN
       /\ Sent("delete", "es", r)
       /\ Return(x.err, d, partial)
  /\ UNCHANGED <<client, other, unrecorded, config, op, crud, kid>>

-----------------------------------------------------------------------------
(* The ece_cluster resource (resource_ece_cluster.go) and its client: the   *)
(* first form of the provider, one elasticsearch cluster and no Kibana      *)

CreateCluster(r) ==
  IF r.code = 0 THEN Fail(Err("transport", <<>>))
  ELSE IF r.code # 201 THEN Fail(Err("operation", <<r.body>>))
  ELSE IF r.body.t # "crud" THEN Fail(Err("decoding", <<>>))
  ELSE Ok(r.body)

GetCluster(r) == Expect(r, {200, 404})
UpdateCluster(r) == Expect(r, {202})
ShutdownCluster(r) == Expect(r, {202})
DeleteCluster(r) == Expect(r, {200})

WaitForStatus(r, status) ==
  LET g == GetCluster(r) IN
  IF g.err # NoErr THEN [res |-> "fail", err |-> g.err]
  ELSE IF r.code = 200
    THEN IF r.body.t # "info" THEN [res |-> "fail", err |-> Err("decoding", <<>>)]
         ELSE IF r.body.status = status THEN [res |-> "ok", err |-> NoErr]
         ELSE [res |-> "retry", err |-> NoErr]
  ELSE [res |-> "retry", err |-> NoErr]

WaitForShutdown(r) ==
  LET g == GetCluster(r) IN
  IF g.err # NoErr THEN [res |-> "fail", err |-> g.err]
  ELSE IF r.code = 404 THEN [res |-> "ok", err |-> NoErr]
  ELSE IF r.code = 200
    THEN IF r.body.t # "info" THEN [res |-> "fail", err |-> Err("decoding", <<>>)]
         ELSE IF r.body.status = "stopped" THEN [res |-> "ok", err |-> NoErr]
         ELSE [res |-> "retry", err |-> NoErr]
  ELSE [res |-> "retry", err |-> NoErr]

\* the schema has no "cluster" attribute, so the d.Set of a read body
\* changes nothing
resourceECEClusterRead(dd, r) ==
  LET g == GetCluster(r) IN
  IF g.err # NoErr THEN [err |-> g.err, d |-> dd]
  ELSE IF r.code = 404 THEN [err |-> NoErr, d |-> [dd EXCEPT !.id = ""]]
  ELSE IF r.body.t = "garbage" THEN [err |-> Err("decoding", <<>>), d |-> dd]
  ELSE [err |-> NoErr, d |-> dd]

EceConfigs == {c \in Configs : c.plan # "" /\ ~c.kibana}

BeginEceRead ==
  /\ state.id # ""
  /\ res = "ece_cluster"
  /\ Start("ece_read", StateConfig, state)
  /\ pc' = "ece_read"
  /\ UNCHANGED res

EceReadGet ==
  /\ pc = "ece_read"
  /\ \E r \in PollResponses({"started"}) :
       LET out == resourceECEClusterRead(d, r) IN
       /\ Sent("read", "es", r)
       /\ Return(out.err, out.d, partial)
  /\ UNCHANGED <<client, other, unrecorded, config, op, crud, kid>>

BeginEceCreate ==
  /\ state.id = ""
  /\ \E c \in EceConfigs :
       /\ c.cluster_name = "n1" /\ c.plan = "v1"
       /\ Start("ece_create", c,
                [EmptyAttrs EXCEPT !.cluster_name = c.cluster_name, !.plan = c.plan])
  /\ pc' = "ec_submit"
  /\ res' = "ece_cluster"

EceCreateSubmit ==
  /\ pc = "ec_submit"
  /\ \E r \in CreateResponses :
       LET c == CreateCluster(r) IN
       /\ Sent("create", "es", r)
       /\ IF c.err # NoErr
            THEN Return(c.err, d, partial) /\ crud' = crud
            ELSE Goto("ec_wait", d, partial) /\ crud' = c.val
  /\ UNCHANGED <<client, other, unrecorded, config, op, kid>>

\* WaitForStatus, then d.SetId
EceCreateWait ==
  /\ pc = "ec_wait"
  /\ \/ /\ polls < MaxPolls
        /\ \E r \in PollResponses({"pending", "started"}) :
             LET p == WaitForStatus(r, "started") IN
             /\ Sent("poll", "es", r)
             /\ CASE p.res = "ok" ->
                       Goto("ece_read", [d EXCEPT !.id = crud.elasticsearch_cluster_id],
                            partial)
                  [] p.res = "retry" ->
                       /\ polls' = polls + 1
                       /\ UNCHANGED <<pc, d, partial, err, state, res>>
                  [] OTHER -> Return(p.err, d, partial)
     \/ /\ polls >= 1
        /\ Elapsed("timeout", "es")
        /\ Return(Err("timeout", <<>>), d, partial)
  /\ UNCHANGED <<client, other, unrecorded, config, op, crud, kid>>

BeginEceUpdate ==
  /\ state.id # ""
  /\ res = "ece_cluster"
  /\ \E c \in EceConfigs :
       /\ c # StateConfig
       /\ Start("ece_update", c,
                [state EXCEPT !.cluster_name = c.cluster_name, !.plan = c.plan])
  /\ pc' = "eu_get"
  /\ UNCHANGED res

EceUpdateGet ==
  /\ pc = "eu_get"
  /\ \E r \in PollResponses({"started"}) :
       LET g == GetCluster(r) IN
       /\ Sent("read", "es", r)
       /\ IF g.err # NoErr THEN Return(g.err, d, partial)
          ELSE IF r.code = 404 THEN Return(Err("notfound", <<>>), d, partial)
          ELSE Goto("eu_plan", d, partial)
  /\ UNCHANGED <<client, other, unrecorded, config, op, crud, kid>>

EceUpdatePlan ==
  /\ pc = "eu_plan"
  /\ \E r \in PlainResponses :
       LET u == UpdateCluster(r) IN
       /\ Sent("plan", "es", r)
       /\ IF u.err # NoErr THEN Return(u.err, d, partial)
          ELSE Goto("eu_wait", d, partial)
  /\ UNCHANGED <<client, other, unrecorded, config, op, crud, kid>>

EceUpdateWait ==
  /\ pc = "eu_wait"
  /\ WaitLoop("es", [r \in PollResponses({"pending", "started"}) |->
                      WaitForStatus(r, "started")],
              "ece_read", "")
  /\ UNCHANGED <<client, other, unrecorded, config, op, crud, kid>>

BeginEceDelete ==
  /\ state.id # ""
  /\ res = "ece_cluster"
  /\ Start("ece_delete", StateConfig, state)
  /\ pc' = "ed_shutdown"
  /\ UNCHANGED res

EceDeleteShutdown ==
  /\ pc = "ed_shutdown"
  /\ \E r \in PlainResponses :
       LET x == ShutdownCluster(r) IN
       /\ Sent("shutdown", "es", r)
       /\ IF x.err # NoErr THEN Return(x.err, d, partial)
          ELSE Goto("ed_wait", d, partial)
  /\ UNCHANGED <<client, other, unrecorded, config, op, crud, kid>>

\* the result of WaitForShutdown is dropped
EceDeleteWait ==
  /\ pc = "ed_wait"
  /\ WaitLoop("es", [r \in PollResponses({"started", "stopped"}) |->
                      WaitForShutdown(r)],
              "ed_delete", "ed_delete")
  /\ UNCHANGED <<client, other, unrecorded, config, op, crud, kid>>

EceDeleteDelete ==
  /\ pc = "ed_delete"
  /\ \E r \in PlainResponses :
       LET x == DeleteCluster(r) IN
       /\ Sent("delete", "es", r)
       /\ Return(x.err, d, partial)
  /\ UNCHANGED <<client, other, unrecorded, config, op, crud, kid>>

-----------------------------------------------------------------------------
Next ==
  \/ BeginRead \/ ReadGet
  \/ BeginCreate \/ CreateExpand \/ CreateSubmit \/ CreateWait \/ CreateActivity
  \/ CreateKibanaWait \/ CreateKibanaActivity
  \/ BeginUpdate \/ UpdateGet \/ UpdateMetadata \/ UpdatePlan \/ UpdateSleep
  \/ UpdateWait \/ UpdateActivity
  \/ UpdateKibanaCreate \/ UpdateKibanaMetadata \/ UpdateKibanaPlan
  \/ UpdateKibanaShutdown \/ UpdateKibanaShutdownWait \/ UpdateKibanaDelete
  \/ UpdateKibanaSleep \/ UpdateKibanaWait \/ UpdateKibanaActivity
  \/ BeginDelete \/ DeleteShutdown \/ DeleteWait \/ DeleteDelete
  \/ BeginEceRead \/ EceReadGet
  \/ BeginEceCreate \/ EceCreateSubmit \/ EceCreateWait
  \/ BeginEceUpdate \/ EceUpdateGet \/ EceUpdatePlan \/ EceUpdateWait
  \/ BeginEceDelete \/ EceDeleteShutdown \/ EceDeleteWait \/ EceDeleteDelete

Spec == Init /\ [][Next]_vars

-----------------------------------------------------------------------------
(* Reading the trace *)

Indices(k, t) == {i \in 1..Len(trace) : trace[i].k = k /\ trace[i].t = t}
Count(k, t) == Cardinality(Indices(k, t))
Last == trace[Len(trace)]

\* the answers to the polls of cluster t, in order
Polls(t) == SelectSeq(trace, LAMBDA e : e.k = "poll" /\ e.t = t)

\* a read that reports a status: 200 with a decodable body
Reports(e, status) == e.code = 200 /\ e.status = status
ReportsOther(e, status) == e.code = 200 /\ e.status \notin {status, "garbage"}

\* a read that fails: no response, a status other than 200/404, or a 200
\* whose body cannot be decoded
FailedRead(e) == e.code \notin {200, 404} \/ (e.code = 200 /\ e.status = "garbage")

Finished(o) == op = o /\ pc = "done"

-----------------------------------------------------------------------------
(* C1 *)

\* the create request returned 201 with a decodable body, and the first
\* three polls of the new cluster reported a status other than "started"
\* twice and then "started"
C1_Scenario ==
  /\ op = "create"
  /\ Count("create", "es") = 1
  /\ crud.t = "crud"
  /\ Len(Polls("es")) >= 3
  /\ ReportsOther(Polls("es")[1], "started")
  /\ ReportsOther(Polls("es")[2], "started")
  /\ Reports(Polls("es")[3], "started")

\* the rest of the happy path: no Kibana cluster in the create response, a
\* healthy plan activity and a final read that finds the cluster
C1_RestSucceeds ==
  /\ crud.kibana_cluster_id = ""
  /\ \E i \in Indices("activity", "es") : Reports(trace[i], "healthy")
  /\ \E i \in Indices("read", "es") : Reports(trace[i], "started")

\* C1: on the happy path of Create (201, then reads reporting a status other
\* than "started" twice and then "started") the wait issues exactly three
\* polling reads and ends, and Create returns no error with the identity set
\* to the returned cluster id and the username and password of the create
\* response stored.
C1_CreateHappyPath ==
  C1_Scenario =>
    /\ Len(Polls("es")) = 3
    /\ pc # "c_wait"
    /\ (pc = "done" /\ C1_RestSucceeds) =>
         /\ err = NoErr
         /\ d.id = crud.elasticsearch_cluster_id
         /\ d.elasticsearch_username = crud.username
         /\ d.elasticsearch_password = crud.password
         /\ state = d

C1_Witness ==
  /\ C1_Scenario /\ C1_RestSucceeds
  /\ pc = "done" /\ err = NoErr
  /\ state.id = EsId /\ state.elasticsearch_username = EsUser
  /\ state.elasticsearch_password = EsPass

-----------------------------------------------------------------------------
(* C2 *)

\* the timeout of the wait for "started" of the primary elapsed
C2_TimedOut == op \in {"create", "update"} /\ Count("timeout", "es") > 0

\* C2: when the timeout of the wait for "started" elapses in Create or in
\* Update with a changed plan, the handler has returned a timeout error, no
\* request follows the timeout (no plan-activity fetch, no final refresh),
\* and Create leaves the identity empty.
C2_Timeout ==
  C2_TimedOut =>
    /\ pc = "done"
    /\ err.kind = "timeout"
    /\ Last = Entry("timeout", "es", 0, "")
    /\ Count("read", "es") = (IF op = "update" THEN 1 ELSE 0)
    /\ Count("activity", "es") = 0
    /\ op = "create" => d.id = "" /\ state.id = ""
    /\ op = "update" => HasChange("plan")

C2_Witness ==
  /\ C2_TimedOut
  /\ Len(Polls("es")) = MaxPolls
  /\ \A i \in 1..MaxPolls : ReportsOther(Polls("es")[i], "started")

-----------------------------------------------------------------------------
(* C3 *)

\* the positions (step, message) of the messages of the steps whose status
\* is not "success"
C3_Positions(log) ==
  UNION { {<<i, j>> : j \in 1..Len(log[i].info_log)} :
            i \in {i \in 1..Len(log) : log[i].status # "success"} }

C3_Before(p, q) == p[1] < q[1] \/ (p[1] = q[1] /\ p[2] < q[2])

\* these messages in step order and then message order
C3_Expected(log) ==
  LET S == C3_Positions(log) IN
  [n \in 1..Cardinality(S) |->
     LET p == CHOOSE p \in S : Cardinality({q \in S : C3_Before(q, p)}) = n - 1
     IN log[p[1]].info_log[p[2]]]

\* the last request was a plan-activity fetch answered with healthy = false
C3_Unhealthy ==
  /\ Len(trace) > 0
  /\ Last.k = "activity"
  /\ Reports(Last, "unhealthy")

\* C3: when a plan-activity fetch reports current.healthy = false the
\* handler fails, and its diagnostics are exactly the log messages of the
\* steps whose status is not "success", in step order and then message
\* order, with no message of a step whose status is "success".
C3_FailureAttribution ==
  C3_Unhealthy =>
    /\ pc = "done"
    /\ err.kind = "planfailure"
    /\ err.detail = C3_Expected(resp.body.step_log)

C3_Witness ==
  /\ C3_Unhealthy
  /\ op = "update"
  /\ err.detail = <<"m1", "m3">>

-----------------------------------------------------------------------------
(* C4 *)

\* C4 (as claimed): a Delete whose shutdown was accepted and whose first
\* read after the shutdown returned 404 completes without error, whatever
\* the answer to the delete request.
C4_IdempotentAbsence ==
  ( /\ Finished("delete")
    /\ Len(trace) = 3
    /\ trace[1] = Entry("shutdown", "es", 202, "raw")
    /\ trace[2] = Entry("poll", "es", 404, "raw")
    /\ trace[3].k = "delete" /\ trace[3].code # 0 )
  => err = NoErr

-----------------------------------------------------------------------------
(* C5 *)

C5_Updating == op \in {"update", "ece_update"}

\* C5 (as claimed): when the plan changed, Update sends the plan update,
\* lets the settle delay elapse once the update is accepted (202), then
\* polls for "started", then fetches the plan activity once: no poll
\* precedes the settle delay, the plan-activity fetch directly follows a poll
\* that saw "started", and Update ends without error only if that fetch
\* reported healthy.
C5_UpdateOrder ==
  C5_Updating =>
    /\ \A i \in Indices("sleep", "es") :
         i > 1 /\ trace[i - 1] = Entry("plan", "es", 202, "raw")
    /\ \A i \in Indices("poll", "es") :
         /\ i > 1
         /\ trace[i - 1].t = "es" /\ trace[i - 1].k \in {"sleep", "poll"}
         /\ \E j \in Indices("sleep", "es") : j < i
    /\ \A i \in Indices("activity", "es") :
         i > 1 /\ trace[i - 1].k = "poll" /\ Reports(trace[i - 1], "started")
    /\ Count("sleep", "es") <= 1
    /\ Count("activity", "es") <= 1
    /\ (pc = "done" /\ err = NoErr /\ Count("plan", "es") > 0) =>
         \E i \in Indices("activity", "es") : Reports(trace[i], "healthy")

-----------------------------------------------------------------------------
(* C6 *)

C6_Deleting == op \in {"delete", "ece_delete"}

\* C6: in Delete the delete request is never sent before the shutdown
\* request was accepted (202); after an accepted shutdown it is sent exactly
\* once, whether the wait ended by a read (404 or "stopped"), by a failed
\* read or by timeout; a rejected shutdown ends Delete with an error and no
\* delete request.
C6_DeleteOrder ==
  C6_Deleting =>
    /\ \A i \in Indices("delete", "es") :
         \E j \in Indices("shutdown", "es") : j < i /\ trace[j].code = 202
    /\ Count("delete", "es") <= 1
    /\ Count("shutdown", "es") <= 1
    /\ (pc = "done" /\ \E j \in Indices("shutdown", "es") : trace[j].code = 202)
         => Count("delete", "es") = 1 /\ Last.k = "delete"
    /\ (\E j \in Indices("shutdown", "es") : trace[j].code # 202)
         => pc = "done" /\ err # NoErr /\ Count("delete", "es") = 0

\* the wait for shutdown timed out and the delete request was sent all the same
C6_Witness ==
  /\ C6_Deleting
  /\ pc = "done"
  /\ Count("timeout", "es") = 1
  /\ Count("delete", "es") = 1
  /\ err = NoErr

-----------------------------------------------------------------------------
(* C7 *)

C7_WaitPcs ==
  {"c_wait", "c_kwait", "u_wait", "uk_wait", "uk_swait", "d_wait",
   "ec_wait", "eu_wait", "ed_wait"}

\* the waits whose error the handler drops (the waits for shutdown)
C7_DroppedWaits == {"uk_swait", "d_wait", "ed_wait"}

C7_Target(p) == IF p \in C7_DroppedWaits THEN "stopped" ELSE "started"

\* the error a failed read gives
C7_ErrorOf(e) ==
  IF e.code = 0 THEN "transport"
  ELSE IF e.code = 200 THEN "decoding" ELSE "operation"

\* C7: in every wait loop a read that fails (no response, a status other
\* than 200/404, an undecodable 200 body) ends the wait at once: the handler
\* leaves the loop, and where it returns the error of the wait it returns
\* that of the read; a read that reports a status other than the awaited one
\* keeps the handler in the loop for another read and sets no error.
C7_PollingDiscipline ==
  [][ (pc \in C7_WaitPcs /\ Len(trace') = Len(trace) + 1
         /\ trace'[Len(trace')].k = "poll") =>
        LET e == trace'[Len(trace')] IN
        /\ FailedRead(e) =>
             /\ pc' \notin C7_WaitPcs
             /\ pc \notin C7_DroppedWaits =>
                  pc' = "done" /\ err'.kind = C7_ErrorOf(e)
        /\ ReportsOther(e, C7_Target(pc)) =>
             /\ pc' = pc
             /\ err' = NoErr
             /\ polls' = polls + 1 ]_vars

\* a wait ended by a failed read after a read that reported another status
C7_Witness ==
  /\ op = "create" /\ pc = "done"
  /\ Len(Polls("es")) = 2
  /\ ReportsOther(Polls("es")[1], "started")
  /\ FailedRead(Polls("es")[2])
  /\ Last.k = "poll"
  /\ err.kind = "transport"

-----------------------------------------------------------------------------
(* C8 *)

C8_Mutating == {"create", "plan", "metadata", "shutdown", "delete"}

\* C8: within one run of a handler each mutating request (create, plan
\* update, metadata update, shutdown, delete, for the Elasticsearch and for
\* the Kibana cluster) is sent at most once, whatever was answered to it and
\* to the polls; only reads are repeated.
C8_NoRetry ==
  \A k \in C8_Mutating : \A t \in {"es", "kb"} : Count(k, t) <= 1

\* a create request that got no response: Create returns the error
C8_Witness ==
  /\ op = "create" /\ pc = "done"
  /\ Count("create", "es") = 1
  /\ trace[1] = Entry("create", "es", 0, "none")
  /\ err.kind = "transport"

-----------------------------------------------------------------------------
(* C9 *)

-----------------------------------------------------------------------------
(* C10 *)

\* C10 (as claimed): an Update whose read of the cluster is answered 404
\* returns no error and clears the identity.
C10_UpdateAbsent ==
  ( /\ C5_Updating /\ pc = "done"
    /\ trace = <<Entry("read", "es", 404, "raw")>> )
  => err = NoErr /\ d.id = ""

-----------------------------------------------------------------------------
(* C11 *)

\* Update with a changed kibana section, no kibana block in the
\* configuration and a Kibana cluster id in the state
C11_Teardown ==
  /\ op = "update" /\ pc # "done"
  /\ HasChange("kibana") /\ ~config.kibana /\ state.kibana_cluster_id # ""

\* Update with a changed kibana section, a kibana block in the
\* configuration and no Kibana cluster id in the state
C11_Creation ==
  /\ op = "update" /\ pc # "done"
  /\ HasChange("kibana") /\ config.kibana /\ state.kibana_cluster_id = ""

KibanaRequests == {i \in 1..Len(trace) : trace[i].t = "kb"}

-----------------------------------------------------------------------------
(* C12 *)

\* Create holds a create response that reports a Kibana cluster id
C12_Combined ==
  op = "create" /\ crud.t = "crud" /\ crud.kibana_cluster_id # ""

\* cluster t was read as "started" and then its plan activity as healthy
C12_Converged(t) ==
  \E i \in Indices("activity", t) :
    /\ Reports(trace[i], "healthy")
    /\ i > 1 /\ trace[i - 1].k = "poll" /\ trace[i - 1].t = t
    /\ Reports(trace[i - 1], "started")

\* C12: when the create response reports a Kibana cluster id, Create polls
\* the Kibana cluster only after the elasticsearch cluster was read as
\* "started" and its plan activity as healthy, sets kibana_cluster_id only
\* after the Kibana cluster was read as "started" and its plan activity as
\* healthy, and returns without error only after both.
C12_CombinedCreate ==
  C12_Combined =>
    /\ \A i \in KibanaRequests :
         \E j \in Indices("activity", "es") :
           /\ j < i /\ Reports(trace[j], "healthy")
           /\ j > 1 /\ trace[j - 1].k = "poll" /\ trace[j - 1].t = "es"
           /\ Reports(trace[j - 1], "started")
    /\ d.kibana_cluster_id # "" =>
         C12_Converged("kb") /\ d.kibana_cluster_id = crud.kibana_cluster_id
    /\ pc = "read" => d.kibana_cluster_id = crud.kibana_cluster_id
    /\ (pc = "done" /\ err = NoErr) =>
         C12_Converged("es") /\ C12_Converged("kb")

C12_Witness ==
  /\ C12_Combined
  /\ pc = "done" /\ err = NoErr
  /\ Len(Polls("kb")) = 2
  /\ state.kibana_cluster_id = KbId

-----------------------------------------------------------------------------
(* C13 *)

\* C13 (as claimed): Create and Update of a configuration with no
\* elasticsearch version end with a configuration error and without having
\* sent any request.
C13_NoVersionFailsFirst ==
  (op \in {"create", "update"} /\ config.plan = "" /\ pc = "done") =>
    err.kind = "config" /\ trace = <<>>

-----------------------------------------------------------------------------
(* The plan attribute in full: expandElasticsearchClusterPlan and           *)
(* flattenElasticsearchClusterPlan on the trees of the schema               *)

\* an interface{} value keeps its dynamic kind: a []interface{} or a
\* map[string]interface{}; a map is a function of the keys it holds
List(s) == [list |-> s]
Map(m) == [map |-> m]
NoKeys == [k \in {} |-> 0]

Roles == {"data", "ingest", "master", "ml"}

DefaultElasticsearchNodeType ==
  [data |-> TRUE, ingest |-> TRUE, master |-> TRUE, ml |-> FALSE]

DefaultElasticsearchClusterTopologyElement ==
  [memory_per_node |-> 1024, node_count_per_zone |-> 1,
   node_type |-> DefaultElasticsearchNodeType, zone_count |-> 1]

\* &ElasticsearchNodeType{}
ZeroElasticsearchNodeType == [k \in Roles |-> FALSE]

\* an expander that replaces the role set by the map it is given
expandElasticsearchNodeTypeFromMap_Replaces(nodeType, nodeTypeMap) ==
  [k \in Roles |-> IF k \in DOMAIN nodeTypeMap THEN nodeTypeMap[k] ELSE FALSE]

\* nodeType with the flags that nodeTypeMap holds written over it
expandElasticsearchNodeTypeFromMap(nodeType, nodeTypeMap) ==
  [k \in Roles |-> IF k \in DOMAIN nodeTypeMap THEN nodeTypeMap[k] ELSE nodeType[k]]

\* the body of the loop of expandElasticsearchClusterTopology
expandTopologyElement(elementMap) ==
  LET e0 == DefaultElasticsearchClusterTopologyElement
      e1 == IF "memory_per_node" \in DOMAIN elementMap
            THEN [e0 EXCEPT !.memory_per_node = elementMap.memory_per_node]
            ELSE e0
      e2 == IF "node_count_per_zone" \in DOMAIN elementMap
            THEN [e1 EXCEPT !.node_count_per_zone = elementMap.node_count_per_zone]
            ELSE e1
      e3 == IF "node_type" \in DOMAIN elementMap
            THEN LET nodeTypeMaps == elementMap.node_type.list IN
                 [e2 EXCEPT !.node_type =
                    IF Len(nodeTypeMaps) > 0
                    THEN expandElasticsearchNodeTypeFromMap(
                           DefaultElasticsearchNodeType, nodeTypeMaps[1].map)
                    ELSE DefaultElasticsearchNodeType]
            ELSE e2
  IN IF "zone_count" \in DOMAIN elementMap
     THEN [e3 EXCEPT !.zone_count = elementMap.zone_count]
     ELSE e3

\* an expander that makes its element once, before the loop, so that what
\* an element of the list sets is still set for the one after it
expandElasticsearchClusterTopology_SharedElement(clusterPlanMap) ==
  LET input == clusterPlanMap.cluster_topology.list
      clusterTopology ==
        [i \in 1..Len(input) |->
           expandTopologyElement(IF i = 1 THEN input[i].map
                                 ELSE input[i].map @@ input[i - 1].map)]
  IN IF Len(clusterTopology) = 0
     THEN <<DefaultElasticsearchClusterTopologyElement>>
     ELSE clusterTopology

\* an expander that leaves an empty topology empty
expandElasticsearchClusterTopology_NoDefault(clusterPlanMap) ==
  LET input == clusterPlanMap.cluster_topology.list IN
  [i \in 1..Len(input) |-> expandTopologyElement(input[i].map)]

expandElasticsearchClusterTopology(clusterPlanMap) ==
  LET input == clusterPlanMap.cluster_topology.list
      clusterTopology == [i \in 1..Len(input) |-> expandTopologyElement(input[i].map)]
  IN IF Len(clusterTopology) = 0
     THEN <<DefaultElasticsearchClusterTopologyElement>>
     ELSE clusterTopology

expandElasticsearchConfiguration(clusterPlanMap) ==
  LET elasticsearchList == clusterPlanMap.elasticsearch.list IN
  IF Len(elasticsearchList) < 1 THEN Fail(Err("config", <<>>))
  ELSE Ok([version |-> elasticsearchList[1].map.version])

\* expandElasticsearchClusterPlan on the plan list of the configuration; the
\* plan it builds leaves ZoneCount at its zero value
expandPlanList(clusterPlanList) ==
  LET clusterPlanMap == clusterPlanList.list[1].map
      clusterTopology == expandElasticsearchClusterTopology(clusterPlanMap)
      c == expandElasticsearchConfiguration(clusterPlanMap)
  IN IF c.err # NoErr THEN Fail(c.err)
     ELSE Ok([t |-> "plan", cluster_topology |-> clusterTopology,
              elasticsearch |-> c.val, zone_count |-> 0])

\* an index into a Go slice: a position past its end panics
Panic == Err("panic", <<>>)

\* instanceIndex counts from 1 here
\* a flattener that takes the flags from the node type of the plan
flattenElasticsearchNodeType_FromPlan(clusterInfo, instanceIndex) ==
  LET instances == clusterInfo.topology.instances
      topology == clusterInfo.plan_info.current.plan.cluster_topology
  IN IF Len(instances) > 0
     THEN IF instanceIndex > Len(instances) THEN Fail(Panic)
          ELSE Ok(Map([k \in Roles |-> topology[instanceIndex].node_type[k]]))
     ELSE Ok(Map(NoKeys))

flattenElasticsearchNodeType(clusterInfo, instanceIndex) ==
  LET instances == clusterInfo.topology.instances IN
  IF Len(instances) > 0
  THEN IF instanceIndex > Len(instances) THEN Fail(Panic)
       ELSE LET instance == instances[instanceIndex]
                nodeTypeValues == [s \in instance.service_roles |-> TRUE]
                nodeType == IF ~instance.nil
                            THEN expandElasticsearchNodeTypeFromMap(
                                   ZeroElasticsearchNodeType, nodeTypeValues)
                            ELSE ZeroElasticsearchNodeType
            IN Ok(Map([k \in Roles |-> nodeType[k]]))
  ELSE Ok(Map(NoKeys))

\* the element that one pass of the loop of
\* flattenElasticsearchClusterTopology appends
flattenTopologyElement(clusterInfo, clusterPlan, i) ==
  LET t == clusterPlan.cluster_topology[i]
      defaultZoneCount == clusterPlan.zone_count
  IN Map([memory_per_node |-> t.memory_per_node,
          node_count_per_zone |-> t.node_count_per_zone,
          node_type |-> flattenElasticsearchNodeType(clusterInfo, i).val,
          zone_count |-> IF t.zone_count > 0 THEN t.zone_count ELSE defaultZoneCount])

flattenElasticsearchClusterTopology(clusterInfo, clusterPlan) ==
  LET n == Len(clusterPlan.cluster_topology) IN
  IF \E i \in 1..n : flattenElasticsearchNodeType(clusterInfo, i).err # NoErr
  THEN Fail(Panic)
  ELSE Ok(List([i \in 1..n |-> flattenTopologyElement(clusterInfo, clusterPlan, i)]))

flattenElasticsearchConfiguration(configuration) ==
  List(<<Map([version |-> configuration.version])>>)

flattenElasticsearchClusterPlan(clusterInfo) ==
  LET clusterPlan == clusterInfo.plan_info.current.plan
      topology == flattenElasticsearchClusterTopology(clusterInfo, clusterPlan)
  IN IF topology.err # NoErr THEN Fail(topology.err)
     ELSE Ok(List(<<Map([cluster_topology |-> topology.val,
                         elasticsearch |->
                           flattenElasticsearchConfiguration(clusterPlan.elasticsearch)])>>))

\* the flattener of the deployment variant of the resource: its plan type
\* has no ZoneCount and its topology element no MemoryPerNode nor
\* NodeCountPerZone, so decoding the response drops them
flattenDeploymentTopologyElement(clusterInfo, clusterPlan, i) ==
  LET t == clusterPlan.cluster_topology[i]
      defaultZoneCount == 1
  IN Map([instance_configuration_id |->
            IF "instance_configuration_id" \in DOMAIN t
            THEN t.instance_configuration_id ELSE "",
          node_type |-> flattenElasticsearchNodeType(clusterInfo, i).val,
          zone_count |-> IF t.zone_count > 0 THEN t.zone_count ELSE defaultZoneCount])

flattenDeploymentElasticsearchClusterTopology(clusterInfo, clusterPlan) ==
  LET n == Len(clusterPlan.cluster_topology) IN
  IF \E i \in 1..n : flattenElasticsearchNodeType(clusterInfo, i).err # NoErr
  THEN Fail(Panic)
  ELSE Ok(List([i \in 1..n |-> flattenDeploymentTopologyElement(clusterInfo, clusterPlan, i)]))

flattenDeploymentElasticsearchClusterPlan(clusterInfo) ==
  LET clusterPlan == clusterInfo.plan_info.current.plan
      topology == flattenDeploymentElasticsearchClusterTopology(clusterInfo, clusterPlan)
  IN IF topology.err # NoErr THEN Fail(topology.err)
     ELSE Ok(List(<<Map([cluster_topology |-> topology.val,
                         elasticsearch |->
                           flattenElasticsearchConfiguration(clusterPlan.elasticsearch)])>>))

-----------------------------------------------------------------------------
(* The plan specification: a plan list of the configuration is expanded,    *)
(* the control plane answers a cluster info whose current plan is the       *)
(* expanded plan, and the answer is flattened                               *)

MemorySizes == {1024, 2048}
NodeCounts == {1, 2}
ZoneCounts == 0..MaxZoneCount

\* the maps that hold key k with a value of S
Given(k, S) == {k :> v : v \in S}
\* and the map that does not hold it
Field(k, S) == {NoKeys} \cup Given(k, S)

\* the role sub-trees: every subset of the flags, with every value
NodeTypeMaps == UNION {[D -> BOOLEAN] : D \in SUBSET Roles}
NodeTypeLists == {List(<<>>)} \cup {List(<<Map(m)>>) : m \in NodeTypeMaps}

\* topology elements that give at most a role sub-tree
RoleElements == Field("node_type", NodeTypeLists)

\* topology elements that give any of the three numbers
SizedElements ==
  {a @@ b @@ z : a \in Field("memory_per_node", MemorySizes),
                 b \in Field("node_count_per_zone", NodeCounts),
                 z \in Field("zone_count", ZoneCounts)}

\* fully specified topology elements
FullElements ==
  {a @@ b @@ n @@ z :
     a \in Given("memory_per_node", MemorySizes),
     b \in Given("node_count_per_zone", NodeCounts),
     n \in Given("node_type", {List(<<Map(m)>>) : m \in [Roles -> BOOLEAN]}),
     z \in Given("zone_count", ZoneCounts)}

\* the elements of the lists of more than one element
PairElements ==
  {e \in FullElements :
     /\ e.memory_per_node = 2048 /\ e.node_count_per_zone = 2
     /\ e.zone_count \in {0, 2}
     /\ e.node_type.list[1].map \in
          {[k \in Roles |-> TRUE], [k \in Roles |-> k = "data"]}}
  \cup {NoKeys, "node_type" :> List(<<Map("ml" :> TRUE)>>)}

Topologies ==
  {<<e>> : e \in RoleElements \cup SizedElements \cup FullElements}
  \cup UNION {[1..n -> PairElements] : n \in 0..MaxTopology}

ElasticsearchLists ==
  {List(<<>>)} \cup {List(<<Map([version |-> v])>>) : v \in Versions}

PlanLists ==
  {List(<<Map([cluster_topology |-> List([i \in 1..Len(t) |-> Map(t[i])]),
               elasticsearch |-> e])>>) :
     t \in Topologies, e \in ElasticsearchLists}

\* an instance of the cluster, with its service_roles (nil: the field is
\* absent from the response)
Instance(roles) == [service_roles |-> roles, nil |-> FALSE]
NilInstance == [service_roles |-> {}, nil |-> TRUE]

\* a service role that is none of the four flags
OtherRole == "coordinating"

\* the service roles of an instance that runs the node type of an element
RolesOf(nodeType) == {k \in Roles : nodeType[k]}

\* the instance lists the control plane answers for plan p: one instance an
\* element, for any number of the first elements, or instances without
\* roles, or instances that have a further role
InstanceLists(p) ==
  LET n == Len(p.cluster_topology) IN
  {[i \in 1..m |-> Instance(RolesOf(p.cluster_topology[i].node_type))] : m \in 0..n}
  \cup {[i \in 1..n |-> NilInstance]}
  \cup {[i \in 1..n |->
           Instance(RolesOf(p.cluster_topology[i].node_type) \cup {OtherRole})]}

\* the cluster infos the control plane answers for plan p: it reports the
\* zone count of an element or leaves it out, and reports any zone count of
\* the plan
ClusterInfos(p) ==
  {[t |-> "info",
    plan_info |-> [current |-> [plan |->
       [p EXCEPT !.zone_count = z,
                 !.cluster_topology =
                    [i \in 1..Len(p.cluster_topology) |->
                       IF echo THEN p.cluster_topology[i]
                       ELSE [p.cluster_topology[i] EXCEPT !.zone_count = 0]]]]],
    topology |-> [instances |-> ins]] :
     z \in ZoneCounts, echo \in BOOLEAN, ins \in InstanceLists(p)}

PlanInit ==
  /\ state = EmptyAttrs
  /\ res = ""
  /\ \E l \in PlanLists :
       config = [cluster_name |-> "n1", plan |-> l, kibana |-> FALSE]
  /\ d = EmptyAttrs
  /\ partial = NoPartial
  /\ op = "plan"
  /\ pc = "p_expand"
  /\ crud = NoBody
  /\ kid = ""
  /\ polls = 0
  /\ trace = <<>>
  /\ req = NoBody
  /\ resp = Resp(0, NoBody)
  /\ client = ECEClient(FALSE)
  /\ other = Idle(EmptyAttrs, "")
  /\ unrecorded = NoConfig
  /\ err = NoErr

\* expandElasticsearchClusterPlan: the plan of the request, or its error
ExpandPlan ==
  /\ pc = "p_expand"
  /\ LET e == expandPlanList(config.plan) IN
       IF e.err # NoErr
       THEN /\ err' = e.err /\ pc' = "done" /\ req' = req
       ELSE /\ err' = err /\ pc' = "p_answer" /\ req' = e.val
  /\ UNCHANGED <<client, other, unrecorded, state, res, config, d, partial, op, crud, kid, polls, trace, resp>>

\* the control plane answers a read of the cluster
AnswerInfo ==
  /\ pc = "p_answer"
  /\ \E info \in ClusterInfos(req) : resp' = Resp(200, info)
  /\ pc' = "p_flatten"
  /\ UNCHANGED <<client, other, unrecorded, state, res, config, d, partial, op, crud, kid, polls, trace, req, err>>

\* d.Set("plan", flattenElasticsearchClusterPlan(clusterInfo))
FlattenPlan ==
  /\ pc = "p_flatten"
  /\ LET f == flattenElasticsearchClusterPlan(resp.body) IN
       IF f.err # NoErr
       THEN /\ err' = f.err /\ d' = d
       ELSE /\ err' = err /\ d' = [d EXCEPT !.plan = f.val]
  /\ op' = "flatten"
  /\ pc' = "done"
  /\ UNCHANGED <<client, other, unrecorded, state, res, config, partial, crud, kid, polls, trace, req, resp>>

\* the same with the flattener of the deployment variant
FlattenDeploymentPlan ==
  /\ pc = "p_flatten"
  /\ LET f == flattenDeploymentElasticsearchClusterPlan(resp.body) IN
       IF f.err # NoErr
       THEN /\ err' = f.err /\ d' = d
       ELSE /\ err' = err /\ d' = [d EXCEPT !.plan = f.val]
  /\ op' = "flatten_deployment"
  /\ pc' = "done"
  /\ UNCHANGED <<client, other, unrecorded, state, res, config, partial, crud, kid, polls, trace, req, resp>>

PlanNext == ExpandPlan \/ AnswerInfo \/ FlattenPlan \/ FlattenDeploymentPlan

PlanSpec == PlanInit /\ [][PlanNext]_vars

-----------------------------------------------------------------------------
(* C14 *)

\* the cluster_topology list of the configuration, and its i-th element
InputTopology == config.plan.list[1].map.cluster_topology.list
InputElement(i) == InputTopology[i].map

\* the plan was expanded without error
Expanded == op = "plan" /\ pc = "p_answer"

\* C14: expanding a plan whose cluster_topology list is empty yields a plan
\* with exactly one topology element: memory 1024, node count per zone 1,
\* zone count 1, roles data, ingest, master true and ml false.
C14_DefaultSynthesis ==
  (Expanded /\ InputTopology = <<>>) =>
    req.cluster_topology =
      <<[memory_per_node |-> 1024, node_count_per_zone |-> 1, zone_count |-> 1,
         node_type |-> [data |-> TRUE, ingest |-> TRUE, master |-> TRUE, ml |-> FALSE]]>>

C14_Witness ==
  /\ Expanded /\ InputTopology = <<>>
  /\ Len(req.cluster_topology) = 1
  /\ req.elasticsearch.version = "v1"

-----------------------------------------------------------------------------
(* C15 *)

\* the role sub-tree of the i-th element: the map of the flags it gives, no
\* flag when the sub-tree is absent or empty
GivenRoles(i) ==
  IF "node_type" \notin DOMAIN InputElement(i) THEN NoKeys
  ELSE IF InputElement(i).node_type.list = <<>> THEN NoKeys
  ELSE InputElement(i).node_type.list[1].map

\* C15: every flag of the expanded role set of an element has the value the
\* role sub-tree of the element gives it and, when the sub-tree does not give
\* it (or is absent or empty), its default: true for data, ingest and
\* master, false for ml.
C15_SparseOverride ==
  Expanded =>
    \A i \in 1..Len(InputTopology) : \A k \in Roles :
      req.cluster_topology[i].node_type[k] =
        IF k \in DOMAIN GivenRoles(i) THEN GivenRoles(i)[k] ELSE k # "ml"

\* the sub-tree {ml: true} alone expands to all four roles
C15_Witness ==
  /\ Expanded
  /\ Len(InputTopology) = 1
  /\ GivenRoles(1) = [ml |-> TRUE]
  /\ req.cluster_topology[1].node_type = [k \in Roles |-> TRUE]

-----------------------------------------------------------------------------
(* C16 *)

\* a flattener has returned a plan list, now the plan attribute of d
Flattened == op \in {"flatten", "flatten_deployment"} /\ pc = "done" /\ err = NoErr

\* the current plan of the answer, and the flattened cluster_topology list
CurrentPlan == resp.body.plan_info.current.plan
FlatTopology == d.plan.list[1].map.cluster_topology.list

\* C16 (as claimed): the flattened zone_count of every topology element is
\* the zone count of the element when that is positive and the zone count of
\* the plan otherwise.
C16_ZoneCountFallback ==
  Flattened =>
    \A i \in 1..Len(FlatTopology) :
      FlatTopology[i].map.zone_count =
        IF CurrentPlan.cluster_topology[i].zone_count > 0
        THEN CurrentPlan.cluster_topology[i].zone_count
        ELSE CurrentPlan.zone_count

-----------------------------------------------------------------------------
(* C17 *)

\* every topology element of the configuration gives its three numbers and
\* a role sub-tree with all four flags
FullySpecified ==
  /\ Len(InputTopology) >= 1
  /\ \A i \in 1..Len(InputTopology) :
       /\ DOMAIN InputElement(i) =
            {"memory_per_node", "node_count_per_zone", "node_type", "zone_count"}
       /\ Len(InputElement(i).node_type.list) = 1
       /\ DOMAIN InputElement(i).node_type.list[1].map = Roles

\* the current plan of the answer is the expanded plan, and instance i
\* carries as service roles the roles submitted for element i
Faithful ==
  /\ CurrentPlan = req
  /\ resp.body.topology.instances =
       [i \in 1..Len(req.cluster_topology) |->
          Instance(RolesOf(req.cluster_topology[i].node_type))]

\* C17 (as claimed): flattening a faithful answer to the expansion of a
\* fully specified plan list returns a plan list equal to the one expanded.
C17_RoundTrip ==
  (op = "flatten" /\ pc = "done" /\ FullySpecified /\ Faithful) =>
    err = NoErr /\ d.plan = config.plan

-----------------------------------------------------------------------------
(* C18 *)

Instances == resp.body.topology.instances

\* C18 (as claimed): flattening a cluster info whose instance list is
\* shorter than the topology list of its plan does not fail, and every
\* topology element without an instance gets the role set with all four
\* flags false.
C18_ShortInstanceList ==
  (op = "flatten" /\ pc = "done"
     /\ Len(Instances) < Len(CurrentPlan.cluster_topology)) =>
    /\ err = NoErr
    /\ \A i \in (Len(Instances) + 1)..Len(CurrentPlan.cluster_topology) :
         FlatTopology[i].map.node_type = Map([k \in Roles |-> FALSE])

-----------------------------------------------------------------------------
(* C19 *)

C19_Legacy == op \in {"ece_create", "ece_read", "ece_update", "ece_delete"}

\* what the client operation behind a request of kind k to cluster t makes
\* of response r
C19_Result(k, t, r) ==
  CASE k = "create" ->
         IF t = "kb" THEN CreateKibanaCluster(r)
         ELSE IF C19_Legacy THEN CreateCluster(r) ELSE CreateElasticsearchCluster(r)
    [] k \in {"read", "poll"} ->
         IF t = "kb" THEN GetKibanaCluster(r)
         ELSE IF C19_Legacy THEN GetCluster(r) ELSE GetElasticsearchCluster(r)
    [] k = "activity" ->
         IF t = "kb" THEN GetKibanaClusterPlanActivity(r)
         ELSE GetElasticsearchClusterPlanActivity(r)
    [] k = "plan" ->
         IF t = "kb" THEN UpdateKibanaCluster(r)
         ELSE IF C19_Legacy THEN UpdateCluster(r) ELSE UpdateElasticsearchCluster(r)
    [] k = "metadata" ->
         IF t = "kb" THEN UpdateKibanaClusterMetadata(r)
         ELSE UpdateElasticsearchClusterMetadata(r)
    [] k = "shutdown" ->
         IF t = "kb" THEN ShutdownKibanaCluster(r)
         ELSE IF C19_Legacy THEN ShutdownCluster(r) ELSE ShutdownElasticsearchCluster(r)
    [] k = "delete" ->
         IF C19_Legacy THEN DeleteCluster(r) ELSE DeleteRequest(r)

\* the requests of the trace (its other entries are delays and timeouts)
C19_Requests ==
  {"create", "read", "poll", "activity", "plan", "metadata", "shutdown", "delete"}

\* the success statuses of the claim
C19_Accepted(k) ==
  CASE k = "create" -> {201}
    [] k \in {"plan", "shutdown"} -> {202}
    [] k \in {"delete", "metadata"} -> {200}
    [] k \in {"read", "poll", "activity"} -> {200, 404}

\* C19: a client operation whose request was answered makes an error that
\* carries the raw response body, with no response value, of every status
\* other than its success status (201 for create, 202 for plan update and
\* shutdown, 200 for delete and metadata update, 200 or 404 for a read and a
\* plan-activity fetch), and makes no such error of its success status; a
\* handler that returns such an error returns the one of its last request.
C19_StatusCodes ==
  (op # "plan" /\ trace # <<>> /\ Last.k \in C19_Requests /\ resp.code # 0) =>
    LET c == C19_Result(Last.k, Last.t, resp) IN
      /\ Last.code = resp.code
      /\ IF resp.code \in C19_Accepted(Last.k)
         THEN c.err.kind # "operation"
         ELSE c.err = Err("operation", <<resp.body>>) /\ c.val = NoBody
      /\ (pc = "done" /\ err.kind = "operation") =>
           /\ resp.code \notin C19_Accepted(Last.k)
           /\ err = c.err

\* a plan update answered 200 has failed Update with the body of the answer
C19_Witness ==
  /\ op = "update" /\ pc = "done"
  /\ Last.k = "plan" /\ Last.t = "es" /\ resp.code = 200
  /\ err = Err("operation", <<RawBody>>)

-----------------------------------------------------------------------------
(* The requests of the client: the headers each operation sets, and the     *)
(* client specification, in which the operations of a client are called in  *)
(* any order                                                                *)

jsonContentType == "application/json"

\* http.Header as the set of its <<name, value>> pairs; Header.Set replaces
\* the values of the name
HeaderSet(h, name, value) == {p \in h : p[1] # name} \cup {<<name, value>>}

\* req.SetBasicAuth(username, password)
SetBasicAuth(h, username, password) ==
  HeaderSet(h, "Authorization",
            [scheme |-> "Basic", username |-> username, password |-> password])

BearerToken(c) == [scheme |-> "Bearer", token |-> c.AuthToken]

\* a client that authenticates with its credentials whatever its target
SetRequestAuth_AlwaysBasic(c, h) ==
  SetBasicAuth(h, c.Username, c.Password)

SetRequestAuth(c, h) ==
  IF c.IsElasticCloud THEN HeaderSet(h, "Authorization", BearerToken(c))
  ELSE SetBasicAuth(h, c.Username, c.Password)

\* the operations of ECEClient that build a request, and those of the
\* ECEClient of the ece_cluster resource
Operations ==
  {"CreateDeployment", "GetDeployment", "ShutdownDeployment",
   "CreateElasticsearchCluster", "CreateKibanaCluster",
   "DeleteElasticsearchCluster", "DeleteKibanaCluster",
   "GetElasticsearchCluster", "GetElasticsearchClusterPlan",
   "GetElasticsearchClusterPlanActivity", "GetKibanaCluster",
   "GetKibanaClusterPlanActivity", "UpdateElasticsearchCluster",
   "UpdateElasticsearchClusterMetadata", "UpdateKibanaCluster",
   "UpdateKibanaClusterMetadata", "ShutdownElasticsearchCluster",
   "ShutdownKibanaCluster"}
LegacyOperations ==
  {"CreateCluster", "DeleteCluster", "GetCluster", "UpdateCluster", "ShutdownCluster"}

Request(o, h) == [t |-> "request", operation |-> o, header |-> h]

\* the request an operation of ECEClient builds: Content-Type, then
\* c.SetRequestAuth(req)
NewRequest(c, o) ==
  Request(o, SetRequestAuth(c, HeaderSet({}, "Content-Type", jsonContentType)))

\* the request an operation of the ECEClient of ece_cluster builds
NewLegacyRequest(c, o) ==
  Request(o, SetBasicAuth(HeaderSet({}, "Content-Type", jsonContentType),
                          c.username, c.password))

\* the request of Login: the credentials travel in its body
LoginRequest(c) ==
  [t |-> "request", operation |-> "Login",
   header |-> HeaderSet({}, "Content-Type", jsonContentType),
   password |-> c.Password, email |-> c.Username]

Tokens == {"", "t1", "t2"}
TokenResponse(token) == [t |-> "token", token |-> token]
LoginResponses ==
  {TransportFailure, Resp(200, Garbage), Resp(401, RawBody),
   Resp(201, TokenResponse("t1"))}
    \cup {Resp(200, TokenResponse(k)) : k \in Tokens}

ClientInit ==
  /\ state = EmptyAttrs
  /\ res = ""
  /\ config = NoConfig
  /\ d = EmptyAttrs
  /\ partial = NoPartial
  /\ op = "client"
  /\ pc = "c_ready"
  /\ crud = NoBody
  /\ kid = ""
  /\ polls = 0
  /\ trace = <<>>
  /\ req = NoBody
  /\ resp = Resp(0, NoBody)
  /\ client \in {LegacyECEClient, ECEClient(FALSE), ECEClient(TRUE)}
  /\ other = Idle(EmptyAttrs, "")
  /\ unrecorded = NoConfig
  /\ err = NoErr

IsLegacy(c) == "username" \in DOMAIN c

\* a Login that drops the token it holds when the request fails
Login_DropsToken ==
  /\ pc = "c_ready" /\ ~IsLegacy(client)
  /\ \E r \in LoginResponses :
       /\ req' = LoginRequest(client)
       /\ resp' = r
       /\ IF r.code = 0 THEN
            /\ err' = Err("transport", <<>>)
            /\ client' = [client EXCEPT !.AuthToken = ""]
          ELSE IF r.code # 200 THEN
            /\ err' = Err("operation", <<r.body>>)
            /\ client' = [client EXCEPT !.AuthToken = ""]
          ELSE IF r.body.t # "token" THEN
            /\ err' = Err("decoding", <<>>)
            /\ client' = [client EXCEPT !.AuthToken = ""]
          ELSE
            /\ err' = NoErr
            /\ client' = [client EXCEPT !.AuthToken = r.body.token]
  /\ UNCHANGED <<other, unrecorded, state, res, config, d, partial, op, pc, crud, kid, polls, trace>>

\* Login: the token of a 200 answer becomes the AuthToken of the client
Login ==
  /\ pc = "c_ready" /\ ~IsLegacy(client)
  /\ \E r \in LoginResponses :
       /\ req' = LoginRequest(client)
       /\ resp' = r
       /\ IF r.code = 0 THEN
            /\ err' = Err("transport", <<>>) /\ client' = client
          ELSE IF r.code # 200 THEN
            /\ err' = Err("operation", <<r.body>>) /\ client' = client
          ELSE IF r.body.t # "token" THEN
            /\ err' = Err("decoding", <<>>) /\ client' = client
          ELSE
            /\ err' = NoErr
            /\ client' = [client EXCEPT !.AuthToken = r.body.token]
  /\ UNCHANGED <<other, unrecorded, state, res, config, d, partial, op, pc, crud, kid, polls, trace>>

\* an operation of ECEClient sends its request
Call ==
  /\ pc = "c_ready" /\ ~IsLegacy(client)
  /\ \E o \in Operations, r \in PlainResponses :
       /\ req' = NewRequest(client, o)
       /\ resp' = r
  /\ UNCHANGED <<client, other, unrecorded, state, res, config, d, partial, op, pc, crud, kid, polls,
                 trace, err>>

\* an operation of the ECEClient of ece_cluster sends its request
LegacyCall ==
  /\ pc = "c_ready" /\ IsLegacy(client)
  /\ \E o \in LegacyOperations, r \in PlainResponses :
       /\ req' = NewLegacyRequest(client, o)
       /\ resp' = r
  /\ UNCHANGED <<client, other, unrecorded, state, res, config, d, partial, op, pc, crud, kid, polls,
                 trace, err>>

ClientNext == Login \/ Call \/ LegacyCall

ClientSpec == ClientInit /\ [][ClientNext]_vars

-----------------------------------------------------------------------------
(* C20 *)

\* a request was built
C20_Sent == op = "client" /\ req.t = "request"

\* the values of a header of the request
C20_Values(name) == {p[2] : p \in {q \in req.header : q[1] = name}}

\* the capability flag of the client; the ece_cluster client has none
C20_Flag == ~IsLegacy(client) /\ client.IsElasticCloud

\* the credentials of the client as an Authorization value
C20_Basic ==
  IF IsLegacy(client)
  THEN [scheme |-> "Basic", username |-> client.username, password |-> client.password]
  ELSE [scheme |-> "Basic", username |-> client.Username, password |-> client.Password]

\* the JSON content type, and the one Authorization value the flag chooses
C20_Authorized ==
  /\ C20_Values("Content-Type") = {jsonContentType}
  /\ C20_Values("Authorization") =
       IF C20_Flag THEN {[scheme |-> "Bearer", token |-> client.AuthToken]}
       ELSE {C20_Basic}

\* C20 (as claimed): every request a client operation sends, the one of Login
\* included, carries the JSON content type and exactly one Authorization
\* value: the bearer token when the flag is set, the credentials otherwise.
C20_EveryRequest == C20_Sent => C20_Authorized

\* C20 (amended): every request of an operation other than Login carries the
\* JSON content type and exactly one Authorization value, the AuthToken of
\* the client as a bearer token when the flag is set and the credentials
\* otherwise; the request of Login carries the JSON content type and no
\* Authorization value, and a Login that succeeds leaves the token of its
\* answer as the AuthToken of the client.
C20_RequestHeaders ==
  C20_Sent =>
    IF req.operation = "Login"
    THEN /\ C20_Values("Content-Type") = {jsonContentType}
         /\ C20_Values("Authorization") = {}
         /\ err = NoErr => client.AuthToken = resp.body.token
    ELSE C20_Authorized

\* a client of an Elastic Cloud target has logged in and sent a request with
\* the token of the login
C20_Witness ==
  /\ C20_Sent /\ req.operation = "GetElasticsearchCluster"
  /\ C20_Flag /\ client.AuthToken = "t1"
  /\ C20_Values("Authorization") = {[scheme |-> "Bearer", token |-> "t1"]}

-----------------------------------------------------------------------------
(* C21: the stored credentials *)

Credentials(a) == <<a.elasticsearch_username, a.elasticsearch_password>>

\* the step changes the stored username or password
C21_Written == Credentials(state') # Credentials(state)

\* C21 as stated: the stored credentials are written only by a Create that
\* succeeds, from the create response, and no other step changes them.
C21_OnlySuccessfulCreate ==
  [][C21_Written =>
       /\ op = "create" /\ pc' = "done" /\ err' = NoErr
       /\ Credentials(state') = <<crud.username, crud.password>>]_vars

\* C21: the stored credentials are written only by the return of a Create
\* that set the identity, from the create response and together with the
\* identity, whether that Create succeeds or fails after SetId (Kibana wait,
\* Kibana plan activity, final read); every other step that changes them
\* removes the whole resource from the state (a Read or an Update that finds
\* the cluster gone, a Delete).  In particular no Read and no Update of a
\* cluster that stays in the state changes them.
C21_CredentialFrame ==
  [][C21_Written =>
       \/ /\ op = "create" /\ pc' = "done"
          /\ state.id = "" /\ state'.id = crud.elasticsearch_cluster_id
          /\ state'.id # ""
          /\ Credentials(state') = <<crud.username, crud.password>>
       \/ state' = EmptyAttrs]_vars

\* a Create failed after SetId (in its Kibana phase or its final read) and
\* the credentials of its create response are stored with the identity
C21_Witness ==
  /\ Finished("create") /\ err # NoErr
  /\ state.id = EsId
  /\ Credentials(state) = <<EsUser, EsPass>>

-----------------------------------------------------------------------------
(* The Kibana section of the create request.  The element and plan types   *)
(* of this version of the resource are not among the sources; the defaults *)
(* are those of ece_api_structures.go and the fields the expander sets are *)
(* added to them.                                                           *)

\* a nil interface{} value
Nil == [nil |-> TRUE]

DefaultTopologySize == [resource |-> "memory", value |-> 1024]

DefaultKibanaClusterTopologyElement ==
  [instance_configuration_id |-> "aws.kibana.r4", size |-> DefaultTopologySize,
   zone_count |-> 1]

DefaultKibanaConfiguration == [version |-> "7.6.0"]

DefaultKibanaClusterPlan ==
  [cluster_topology |-> <<DefaultKibanaClusterTopologyElement>>,
   kibana |-> DefaultKibanaConfiguration]

\* v is assigned to field k of the struct s
Assign(s, k, v) == (k :> v) @@ s

\* the loop body of expandKibanaClusterTopology
expandKibanaTopologyElement(elementMap) ==
  LET e0 == DefaultKibanaClusterTopologyElement
      e1 == IF "memory_per_node" \in DOMAIN elementMap
            THEN Assign(e0, "memory_per_node", elementMap.memory_per_node)
            ELSE e0
      e2 == IF "node_count_per_zone" \in DOMAIN elementMap
            THEN Assign(e1, "node_count_per_zone", elementMap.node_count_per_zone)
            ELSE e1
  IN IF "zone_count" \in DOMAIN elementMap
     THEN Assign(e2, "zone_count", elementMap.zone_count)
     ELSE e2

\* an expander that leaves an empty topology list empty
expandKibanaClusterTopology_NoDefault(kibanaPlan, kibanaPlanMap) ==
  IF "cluster_topology" \notin DOMAIN kibanaPlanMap THEN kibanaPlan
  ELSE LET input == kibanaPlanMap.cluster_topology.list IN
       Assign(kibanaPlan, "cluster_topology",
              [i \in 1..Len(input) |-> expandKibanaTopologyElement(input[i].map)])

expandKibanaClusterTopology(kibanaPlan, kibanaPlanMap) ==
  IF "cluster_topology" \notin DOMAIN kibanaPlanMap THEN kibanaPlan
  ELSE LET input == kibanaPlanMap.cluster_topology.list
           clusterTopology ==
             [i \in 1..Len(input) |-> expandKibanaTopologyElement(input[i].map)]
       IN Assign(kibanaPlan, "cluster_topology",
                 IF Len(clusterTopology) = 0
                 THEN <<DefaultKibanaClusterTopologyElement>>
                 ELSE clusterTopology)

\* the plan that expandKibanaClusterPlan leaves in kibanaPlan; it returns no
\* error
expandKibanaClusterPlan(kibanaPlan, inputPlan) ==
  LET kibanaPlanList == inputPlan.list IN
  IF Len(kibanaPlanList) = 0 THEN kibanaPlan
  ELSE IF "map" \notin DOMAIN kibanaPlanList[1] THEN kibanaPlan
  ELSE LET kibanaPlanMap == kibanaPlanList[1].map
           p == IF "zone_count" \in DOMAIN kibanaPlanMap
                THEN Assign(kibanaPlan, "zone_count", kibanaPlanMap.zone_count)
                ELSE kibanaPlan
       IN expandKibanaClusterTopology(p, kibanaPlanMap)

\* expandKibanaCreateRequest on the kibana list of the configuration: Nil
\* without a kibana block
expandKibanaList(kibanaList) ==
  IF Len(kibanaList.list) = 0 THEN Nil
  ELSE IF kibanaList.list[1] = Nil
  THEN [cluster_name |-> "", plan |-> DefaultKibanaClusterPlan]
  ELSE LET kibanaMap == kibanaList.list[1].map IN
       [cluster_name |-> IF "cluster_name" \in DOMAIN kibanaMap
                         THEN kibanaMap.cluster_name ELSE "",
        plan |-> IF "plan" \in DOMAIN kibanaMap
                 THEN expandKibanaClusterPlan(DefaultKibanaClusterPlan, kibanaMap.plan)
                 ELSE DefaultKibanaClusterPlan]

\* the request that Create builds from the cluster plan and the Kibana request
CreateClusterRequest(clusterName, clusterPlan, kibanaRequest) ==
  [t |-> "create", cluster_name |-> clusterName, plan |-> clusterPlan,
   kibana |-> IF kibanaRequest = Nil THEN Nil
              ELSE [cluster_name |-> kibanaRequest.cluster_name,
                    plan |-> kibanaRequest.plan]]

-----------------------------------------------------------------------------
(* The specification of the create request: Create up to its submission,   *)
(* on every kibana list of the bounded configurations                       *)

KibanaNames == {"", "k1"}

KibanaElementMaps ==
  {a @@ b @@ z : a \in Field("memory_per_node", {2048}),
                 b \in Field("node_count_per_zone", {2}),
                 z \in Field("zone_count", {2})}

KibanaTopologyLists ==
  {List(l) : l \in UNION {[1..n -> {Map(e) : e \in KibanaElementMaps}] :
                            n \in 0..MaxTopology}}

KibanaPlanMaps ==
  {z @@ t : z \in Field("zone_count", {0, 2}),
            t \in Field("cluster_topology", KibanaTopologyLists)}

KibanaPlanLists ==
  {List(<<>>), List(<<Nil>>)} \cup {List(<<Map(m)>>) : m \in KibanaPlanMaps}

KibanaMaps ==
  {n @@ p : n \in Field("cluster_name", KibanaNames),
            p \in Field("plan", KibanaPlanLists)}

KibanaLists ==
  {List(<<>>), List(<<Nil>>)} \cup {List(<<Map(m)>>) : m \in KibanaMaps}

RequestInit ==
  /\ state = EmptyAttrs
  /\ res = ""
  /\ \E v \in {"", "v1"}, l \in KibanaLists :
       config = [cluster_name |-> "n1", plan |-> v, kibana |-> l]
  /\ d = EmptyAttrs
  /\ partial = NoPartial
  /\ op = "create_request"
  /\ pc = "c_expand"
  /\ crud = NoBody
  /\ kid = ""
  /\ polls = 0
  /\ trace = <<>>
  /\ req = NoBody
  /\ resp = Resp(0, NoBody)
  /\ client = ECEClient(FALSE)
  /\ other = Idle(EmptyAttrs, "")
  /\ unrecorded = NoConfig
  /\ err = NoErr

\* Create from its start to the request it hands to the client
BuildCreateRequest ==
  /\ op = "create_request"
  /\ pc = "c_expand"
  /\ LET e == expandElasticsearchClusterPlan(config) IN
       IF e.err # NoErr
       THEN /\ err' = e.err /\ pc' = "done" /\ req' = req
       ELSE /\ err' = err
            /\ pc' = "c_submit"
            /\ req' = CreateClusterRequest(config.cluster_name, e.val,
                                           expandKibanaList(config.kibana))
  /\ UNCHANGED <<client, other, unrecorded, state, res, config, d, partial, op, crud, kid, polls,
                 trace, resp>>

RequestNext == BuildCreateRequest

RequestSpec == RequestInit /\ [][RequestNext]_vars

-----------------------------------------------------------------------------
(* C22 *)

\* the kibana block of the configuration, when there is one
C22_Block == config.kibana.list[1]

\* the kibana block gives a plan with a topology list that has elements
C22_GivesTopology ==
  /\ C22_Block # Nil
  /\ "plan" \in DOMAIN C22_Block.map
  /\ Len(C22_Block.map.plan.list) > 0
  /\ C22_Block.map.plan.list[1] # Nil
  /\ "cluster_topology" \in DOMAIN C22_Block.map.plan.list[1].map
  /\ Len(C22_Block.map.plan.list[1].map.cluster_topology.list) > 0

\* C22: the create request has a Kibana section exactly when the
\* configuration has a kibana block; for an empty block the section holds
\* the default Kibana plan, whose topology is the one default element; for a
\* block whose plan gives no topology list, or an empty one, the topology of
\* the section is still that one default element.
C22_KibanaSection ==
  pc = "c_submit" /\ op = "create_request" =>
    /\ req.kibana # Nil <=> Len(config.kibana.list) > 0
    /\ Len(config.kibana.list) > 0 /\ C22_Block = Nil =>
         /\ req.kibana.plan = DefaultKibanaClusterPlan
         /\ req.kibana.plan.cluster_topology = <<DefaultKibanaClusterTopologyElement>>
    /\ Len(config.kibana.list) > 0 /\ ~C22_GivesTopology =>
         req.kibana.plan.cluster_topology = <<DefaultKibanaClusterTopologyElement>>

\* a request was built for a kibana block whose plan gives a zone count and
\* an empty topology list
C22_Witness ==
  /\ pc = "c_submit" /\ op = "create_request"
  /\ Len(config.kibana.list) > 0
  /\ C22_Block # Nil
  /\ "plan" \in DOMAIN C22_Block.map
  /\ C22_Block.map.plan = List(<<Map(("zone_count" :> 2)
                                     @@ ("cluster_topology" :> List(<<>>)))>>)
  /\ req.kibana.plan.cluster_topology = <<DefaultKibanaClusterTopologyElement>>

-----------------------------------------------------------------------------
(* Two resources under one provider: their handlers hold the same          *)
(* *ECEClient (meta) and are run interleaved.  The variables of the        *)
(* handler that takes steps are those of the specification above; the      *)
(* other handler waits in the variable other until the two change places.  *)

\* the variables of the handler that takes steps
Local ==
  [state |-> state, res |-> res, config |-> config, d |-> d,
   partial |-> partial, op |-> op, pc |-> pc, crud |-> crud, kid |-> kid,
   polls |-> polls, trace |-> trace, req |-> req, resp |-> resp, err |-> err]

\* the identity of the second cluster
OtherId == "es2"

\* the state of a cluster that a Create without a kibana block left
Existing(id) ==
  [EmptyAttrs EXCEPT !.id = id, !.cluster_name = "n1", !.plan = "v1",
                     !.elasticsearch_username = EsUser,
                     !.elasticsearch_password = EsPass]

\* the handlers change places between two of their steps
Switch ==
  /\ other' = Local
  /\ state' = other.state
  /\ res' = other.res
  /\ config' = other.config
  /\ d' = other.d
  /\ partial' = other.partial
  /\ op' = other.op
  /\ pc' = other.pc
  /\ crud' = other.crud
  /\ kid' = other.kid
  /\ polls' = other.polls
  /\ trace' = other.trace
  /\ req' = other.req
  /\ resp' = other.resp
  /\ err' = other.err
  /\ client' = client
  /\ unrecorded' = unrecorded

PairInit ==
  /\ state = Existing(EsId)
  /\ res = "elasticsearch_cluster"
  /\ config = NoConfig
  /\ d = EmptyAttrs
  /\ partial = NoPartial
  /\ op = "none"
  /\ pc = "idle"
  /\ crud = NoBody
  /\ kid = ""
  /\ polls = 0
  /\ trace = <<>>
  /\ req = NoBody
  /\ resp = Resp(0, NoBody)
  /\ client = ECEClient(FALSE)
  /\ other = Idle(Existing(OtherId), "elasticsearch_cluster")
  /\ unrecorded = NoConfig
  /\ err = NoErr

\* each resource is read or deleted once, the steps of the two handlers in
\* any order
PairNext ==
  \/ pc = "idle" /\ BeginRead
  \/ pc = "idle" /\ BeginDelete
  \/ ReadGet
  \/ DeleteShutdown
  \/ DeleteWait
  \/ DeleteDelete
  \/ Switch

PairSpec == PairInit /\ [][PairNext]_vars

-----------------------------------------------------------------------------
(* C23 *)

\* the step hands over from one handler to the other
C23_HandOver == other' = Local /\ Local' = other

-----------------------------------------------------------------------------
(* C24 *)

\* C24: every request of a Delete of the resource is a request for the
\* elasticsearch cluster (the shutdown, the reads of the wait, the delete);
\* none is sent for a Kibana cluster, in particular none for the
\* kibana_cluster_id the state holds.
C24_PrimaryOnly ==
  op = "delete" =>
    \A i \in 1..Len(trace) :
      /\ trace[i].t = "es"
      /\ trace[i].k \in {"shutdown", "poll", "timeout", "delete"}

\* a Delete of a resource with a recorded Kibana cluster sent its shutdown
\* and its delete request and returned without error
C24_Witness ==
  /\ Finished("delete") /\ err = NoErr
  /\ d.kibana_cluster_id = KbId
  /\ Count("shutdown", "es") = 1
  /\ Count("delete", "es") = 1

-----------------------------------------------------------------------------
(* The deployment variant of the resource (unnamed/part_011) and its       *)
(* client operations: Create, Read and Delete; it has no Update            *)

DeploymentId == "dep1"

EmptyDeploymentAttrs ==
  [id |-> "", name |-> "", version |-> "", plan |-> "", elastic_cloud_id |-> "",
   deployment_id |-> "", deployment_name |-> "",
   elasticsearch_username |-> "", elasticsearch_password |-> ""]

DeploymentConfigs == [name : Names, version : Versions]

\* a DeploymentResource of a create response
DeploymentResource == [cloud_id |-> "cloud1", username |-> EsUser, password |-> EsPass]

\* a DeploymentCreateResponse
DeploymentCreateBody(name, resources) ==
  [t |-> "deployment", id |-> DeploymentId, name |-> name, resources |-> resources]

DeploymentCreateResponses(dd) ==
  {TransportFailure, Resp(201, Garbage), Resp(200, RawBody), Resp(400, RawBody)}
    \cup {Resp(201, DeploymentCreateBody(dd.name, l)) :
            l \in {<<>>, <<DeploymentResource>>}}

\* a DeploymentGetResponse, as far as flattenDeploymentPlan reads it
DeploymentInfoResponses ==
  {TransportFailure, Resp(404, RawBody), Resp(500, RawBody), Resp(200, Garbage)}
    \cup {Resp(200, [t |-> "info", status |-> "started", plan |-> v]) :
            v \in Versions}

CreateDeployment(r) ==
  IF r.code = 0 THEN Fail(Err("transport", <<>>))
  ELSE IF r.code # 201 THEN Fail(Err("operation", <<r.body>>))
  ELSE IF r.body.t # "deployment" THEN Fail(Err("decoding", <<>>))
  ELSE Ok(r.body)

GetDeployment(r) == Expect(r, {200, 404})
ShutdownDeployment(r) == Expect(r, {202})
DeleteDeployment(r) == ShutdownDeployment(r)

\* what Terraform keeps when a handler of the deployment resource returns
DeploymentPersist(o, nd, e) ==
  CASE o = "deployment_create" -> IF nd.id = "" THEN EmptyDeploymentAttrs ELSE nd
    [] o = "deployment_read" ->
         IF e # NoErr THEN state
         ELSE IF nd.id = "" THEN EmptyDeploymentAttrs ELSE nd
    [] OTHER -> IF e = NoErr THEN EmptyDeploymentAttrs ELSE nd

DeploymentReturn(e, nd) ==
  /\ pc' = "done"
  /\ err' = e
  /\ d' = nd
  /\ state' = DeploymentPersist(op, nd, e)
  /\ UNCHANGED <<res, partial, polls>>

\* the handler dereferences a nil pointer or indexes past the end of a
\* slice: the provider process panics, no error is returned and Terraform
\* gets no state from it
Crash ==
  /\ pc' = "done"
  /\ err' = Panic
  /\ UNCHANGED <<d, state, res, partial, polls>>

DeploymentInit ==
  /\ state = EmptyDeploymentAttrs
  /\ res = "deployment"
  /\ config = NoConfig
  /\ d = EmptyDeploymentAttrs
  /\ partial = NoPartial
  /\ op = "none"
  /\ pc = "idle"
  /\ crud = NoBody
  /\ kid = ""
  /\ polls = 0
  /\ trace = <<>>
  /\ req = NoBody
  /\ resp = Resp(0, NoBody)
  /\ client = ECEClient(TRUE)
  /\ other = Idle(EmptyAttrs, "")
  /\ unrecorded = NoConfig
  /\ err = NoErr

BeginDeploymentCreate ==
  /\ state.id = ""
  /\ \E c \in DeploymentConfigs :
       Start("deployment_create", c,
             [EmptyDeploymentAttrs EXCEPT !.name = c.name, !.version = c.version])
  /\ pc' = "dc_submit"
  /\ UNCHANGED res

\* resourceDeploymentCreate from CreateDeployment on: the error of the
\* submission is not looked at before createResponse is used
DeploymentCreateSubmit ==
  /\ pc = "dc_submit"
  /\ \E r \in DeploymentCreateResponses(d) :
       LET c == CreateDeployment(r) IN
       /\ Sent("create", "es", r)
       /\ IF c.err # NoErr THEN Crash
          ELSE IF Len(c.val.resources) = 0 THEN Crash
          ELSE DeploymentReturn(NoErr,
                 [d EXCEPT !.id = c.val.id,
                           !.elastic_cloud_id = c.val.resources[1].cloud_id,
                           !.deployment_id = c.val.id,
                           !.deployment_name = c.val.name,
                           !.elasticsearch_username = c.val.resources[1].username,
                           !.elasticsearch_password = c.val.resources[1].password])
  /\ UNCHANGED <<client, other, unrecorded, config, op, crud, kid>>

BeginDeploymentRead ==
  /\ state.id # ""
  /\ Start("deployment_read", [name |-> state.name, version |-> state.version], state)
  /\ pc' = "dr_get"
  /\ UNCHANGED res

DeploymentReadGet ==
  /\ pc = "dr_get"
  /\ \E r \in DeploymentInfoResponses :
       LET g == GetDeployment(r) IN
       /\ Sent("read", "es", r)
       /\ IF g.err # NoErr THEN DeploymentReturn(g.err, d)
          ELSE IF r.code = 404 THEN DeploymentReturn(NoErr, [d EXCEPT !.id = ""])
          ELSE IF r.body.t # "info" THEN DeploymentReturn(Err("decoding", <<>>), d)
          ELSE DeploymentReturn(NoErr, [d EXCEPT !.plan = r.body.plan])
  /\ UNCHANGED <<client, other, unrecorded, config, op, crud, kid>>

BeginDeploymentDelete ==
  /\ state.id # ""
  /\ Start("deployment_delete", [name |-> state.name, version |-> state.version], state)
  /\ pc' = "dd_shutdown"
  /\ UNCHANGED res

DeploymentDeleteShutdown ==
  /\ pc = "dd_shutdown"
  /\ \E r \in PlainResponses :
       LET x == DeleteDeployment(r) IN
       /\ Sent("shutdown", "es", r)
       /\ DeploymentReturn(x.err, d)
  /\ UNCHANGED <<client, other, unrecorded, config, op, crud, kid>>

DeploymentNext ==
  \/ BeginDeploymentCreate
  \/ DeploymentCreateSubmit
  \/ BeginDeploymentRead
  \/ DeploymentReadGet
  \/ BeginDeploymentDelete
  \/ DeploymentDeleteShutdown

DeploymentSpec == DeploymentInit /\ [][DeploymentNext]_vars

-----------------------------------------------------------------------------
(* C25 *)

\* C25: when the create submission of the deployment variant fails, Create
\* returns the error of the submission, the identity stays empty and no
\* attribute is written.
C25_CreateErrorReturned ==
  (/\ op = "deployment_create" /\ pc = "done"
   /\ CreateDeployment(resp).err # NoErr)
    => /\ err = CreateDeployment(resp).err
       /\ state = EmptyDeploymentAttrs
       /\ d = [EmptyDeploymentAttrs EXCEPT !.name = config.name,
                                           !.version = config.version]

-----------------------------------------------------------------------------
(* C26 *)

\* the create request was answered 201 with a body that decodes
C26_Created == Count("create", "es") = 1 /\ trace[1].code = 201 /\ crud.t = "crud"

\* a poll of the elasticsearch cluster reported "started" and its plan
\* activity was healthy
C26_Converged ==
  /\ \E i \in Indices("poll", "es") : Reports(trace[i], "started")
  /\ \E i \in Indices("activity", "es") : Reports(trace[i], "healthy")

\* C26 as stated: a Create that fails at any step after the 201 leaves the
\* identity empty.
C26_FailureLeavesNoIdentity ==
  (Finished("create") /\ err # NoErr /\ C26_Created)
    => d.id = "" /\ state.id = ""

\* C26: in Create the identity is set only after the create request returned
\* 201, a poll reported "started" and the plan activity of the elasticsearch
\* cluster was healthy, and then it is the id of the create response; a
\* Create that fails after the 201 and before that point (timeout of the
\* wait, failed poll, unhealthy or missing plan activity) returns with the
\* identity empty and nothing persisted, while a Create that fails later (in
\* the wait or the plan activity of the Kibana cluster, or by a failed final
\* read) returns with the identity set and persisted.
C26_IdentityInvariant ==
  op = "create" =>
    /\ d.id # "" =>
         /\ C26_Created /\ C26_Converged
         /\ d.id = crud.elasticsearch_cluster_id
    /\ (pc = "done" /\ err # NoErr /\ ~(C26_Created /\ C26_Converged))
         => d.id = "" /\ state = EmptyAttrs
    /\ (pc = "done" /\ err # NoErr /\ C26_Created /\ C26_Converged)
         => d.id = crud.elasticsearch_cluster_id /\ state.id = d.id

\* Create failed by an unhealthy plan activity after the 201 and a poll that
\* reported "started": the cluster exists and the identity is empty
C26_Witness ==
  /\ Finished("create") /\ err # NoErr
  /\ C26_Created
  /\ \E i \in Indices("poll", "es") : Reports(trace[i], "started")
  /\ Last.k = "activity" /\ Last.t = "es" /\ Reports(Last, "unhealthy")
  /\ d.id = "" /\ state = EmptyAttrs

-----------------------------------------------------------------------------
(* C27 *)

\* the entries of the trace that belong to the plan section of Update
C27_PlanKinds == {"plan", "sleep", "poll", "timeout", "activity"}

\* the step adds an entry to the trace of a running Update
C27_Sends == op = "update" /\ op' = "update" /\ Len(trace') = Len(trace) + 1

\* C27, requests only for changed sections: in Update a metadata request is
\* sent only when the cluster name changed, the plan-update request, its
\* settle delay, its polls and its plan-activity read only when the plan
\* changed, and a request for the Kibana cluster only when the kibana block
\* changed; everything else Update sends is a read of the cluster.
C27_OnlyChangedSections ==
  [][C27_Sends =>
       LET e == trace'[Len(trace')] IN
       /\ e.t = "es" /\ e.k = "metadata" => HasChange("cluster_name")
       /\ e.t = "es" /\ e.k \in C27_PlanKinds => HasChange("plan")
       /\ e.t = "kb" => HasChange("kibana")
       /\ e.t = "es" => e.k \in {"read", "metadata"} \cup C27_PlanKinds]_vars

\* the plan section of an Update that got through it: the plan request, the
\* settle delay, at least one poll and the plan-activity read, in this order
C27_PlanSection ==
  /\ Count("plan", "es") = 1 /\ Count("sleep", "es") = 1
  /\ Count("activity", "es") = 1 /\ Count("poll", "es") >= 1
  /\ \A i \in Indices("plan", "es"), j \in Indices("sleep", "es"),
        k \in Indices("poll", "es"), l \in Indices("activity", "es") :
        i < j /\ j < k /\ k < l

C27_Served ==
  (op = "update" /\ pc = "read") =>
    /\ HasChange("cluster_name") <=> Count("metadata", "es") = 1
    /\ HasChange("plan") <=> C27_PlanSection
    /\ (HasChange("kibana") /\ (config.kibana \/ state.kibana_cluster_id # ""))
         <=> (\E i \in 1..Len(trace) : trace[i].t = "kb")

-----------------------------------------------------------------------------
(* C28: termination.  A handler is sequential code: with a transport that  *)
(* answers every request its next step is taken, and resource.Retry gives  *)
(* up when its timeout has elapsed.  Terraform need not start a handler.   *)

\* a step of the running handler
Running == pc \notin {"idle", "done"} /\ Next

LiveSpec == Spec /\ WF_vars(Running)

C28_Operations == {"create", "update", "delete"}

\* C28: every invocation of Create, Update and Delete returns, with success
\* or with an error; in particular every wait loop it enters is left (after a
\* read that reached the target, a read that failed or the timeout).
C28_Terminates == (op \in C28_Operations /\ pc # "done") ~> (pc = "done")

\* a wait of Update was left by timeout and Update returned its error
C28_Witness ==
  /\ Finished("update") /\ err = Err("timeout", <<>>)
  /\ Count("timeout", "es") = 1
  /\ Count("poll", "es") = MaxPolls

-----------------------------------------------------------------------------
(* C29 *)

\* the last request was a plan-activity fetch
C29_Fetched == Len(trace) > 0 /\ Last.k = "activity"

\* C29: a plan-activity fetch that reports current.healthy = true makes the
\* validation succeed, whatever the statuses of the steps of its log: the
\* handler goes on without an error; a fetch answered 404 makes it fail: the
\* handler returns the error that the cluster was not found.
C29_HealthDecides ==
  /\ (C29_Fetched /\ Reports(Last, "healthy")) => pc # "done" /\ err = NoErr
  /\ (C29_Fetched /\ Last.code = 404) => pc = "done" /\ err = Err("notfound", <<>>)

\* a healthy plan whose log holds a step that did not succeed was accepted
C29_Witness ==
  /\ C29_Fetched /\ Reports(Last, "healthy")
  /\ \E i \in 1..Len(resp.body.step_log) : resp.body.step_log[i].status # "success"
  /\ pc # "done" /\ err = NoErr

-----------------------------------------------------------------------------
(* C30 *)

\* C30: in a flattened plan, for every topology index i that has an
\* instance, the node_type of element i holds exactly the four flags data,
\* ingest, master and ml, each true iff its name is among the service roles
\* of instance i; a service role with another name sets nothing.
C30_RoleFlags ==
  (Flattened /\ op = "flatten") =>
    \A i \in 1..Len(FlatTopology) :
      i <= Len(Instances) =>
        /\ DOMAIN FlatTopology[i].map.node_type.map = Roles
        /\ \A k \in Roles :
             FlatTopology[i].map.node_type.map[k] = (k \in Instances[i].service_roles)

\* a plan was flattened whose first instance has the roles data and ml and
\* a role that is none of the four
C30_Witness ==
  /\ Flattened /\ op = "flatten"
  /\ Len(FlatTopology) >= 1 /\ Len(Instances) >= 1
  /\ Instances[1].service_roles = {"data", "ml", OtherRole}
  /\ FlatTopology[1].map.node_type.map = [k \in Roles |-> k \in {"data", "ml"}]

-----------------------------------------------------------------------------
(* C31 *)

\* the waits for "started" and the waits for shutdown of the resource
C31_StartedWaits == {"c_wait", "c_kwait", "u_wait", "uk_wait"}
C31_ShutdownWaits == {"d_wait", "uk_swait"}

\* the step is a read of a wait loop, answered by 404
C31_Missing ==
  /\ Len(trace') = Len(trace) + 1
  /\ trace'[Len(trace')].k = "poll"
  /\ trace'[Len(trace')].code = 404

\* C31: in a wait for "started" a read answered by 404 neither ends the wait
\* nor sets an error, the handler stays in the loop for another read; the
\* wait is left only after a read that reports "started", after a read that
\* fails, or when the timeout elapses.  Only in the waits for shutdown does a
\* read answered by 404 end the wait as reached.
C31_MissingWhileStarting ==
  [][ /\ (pc \in C31_StartedWaits /\ C31_Missing) =>
           /\ pc' = pc
           /\ err' = NoErr
           /\ polls' = polls + 1
           /\ d' = d /\ state' = state
      /\ (pc \in C31_StartedWaits /\ pc' # pc) =>
           LET e == trace'[Len(trace')] IN
           \/ e.k = "poll" /\ Reports(e, "started") /\ pc' # "done" /\ err' = NoErr
           \/ e.k = "poll" /\ FailedRead(e) /\ pc' = "done" /\ err' # NoErr
           \/ e.k = "timeout" /\ pc' = "done" /\ err'.kind = "timeout"
      /\ (pc \in C31_ShutdownWaits /\ C31_Missing) =>
           /\ pc' \notin C31_ShutdownWaits \cup {"done"}
           /\ err' = NoErr ]_vars

\* Create went on to the plan activity after a 404 and then "started"
C31_Witness ==
  /\ op = "create" /\ pc = "c_activity"
  /\ Len(Polls("es")) = 2
  /\ Polls("es")[1].code = 404
  /\ Reports(Polls("es")[2], "started")

-----------------------------------------------------------------------------
(* C32 *)

\* positions of Update: the read and the rename, the plan section, and the
\* section of the companion
C32_BeforeRename == {"u_get", "u_meta"}
C32_PlanStep == {"u_plan", "u_sleep", "u_wait", "u_activity"}
C32_CompanionStep ==
  {"uk_create", "uk_meta", "uk_plan", "uk_shutdown", "uk_swait", "uk_delete",
   "uk_sleep", "uk_wait", "uk_activity"}

\* the step is Update returning an error
C32_Fails == op = "update" /\ pc' = "done" /\ err' # NoErr

\* the attributes other than those of ks are persisted as they were
C32_Keeps(ks) == \A k \in DOMAIN state \ ks : state'[k] = state[k]

\* C32: when Update fails in the plan section (the expansion of the plan,
\* the plan request, the wait or the plan activity), the cluster name of the
\* configuration is persisted and the plan is not; when it fails in the
\* section of the companion, name and plan of the configuration are
\* persisted; when the opening read or the rename fails, nothing is.
C32_PartialPersistence ==
  [][ C32_Fails =>
        /\ (pc \in C32_BeforeRename /\ err'.kind # "config") => state' = state
        /\ (pc \in C32_PlanStep \/ (pc \in C32_BeforeRename /\ err'.kind = "config")) =>
             /\ state'.cluster_name = config.cluster_name
             /\ C32_Keeps({"cluster_name"})
        /\ pc \in C32_CompanionStep =>
             /\ state'.cluster_name = config.cluster_name
             /\ state'.plan = config.plan
             /\ C32_Keeps({"cluster_name", "plan"}) ]_vars

\* Update renamed the cluster and its plan request was refused: the new name
\* is in the state and the plan of the configuration is not
C32_Witness ==
  /\ op = "update" /\ pc = "done" /\ err.kind = "operation"
  /\ Count("metadata", "es") = 1
  /\ Last.k = "plan" /\ Last.t = "es"
  /\ state.cluster_name = config.cluster_name
  /\ state.plan # config.plan

-----------------------------------------------------------------------------
(* C33 *)

\* the step is Update failing in the wait or in the plan-activity check of
\* the companion it has just created
C33_FailsAfterCreate ==
  /\ op = "update" /\ pc \in {"uk_wait", "uk_activity"}
  /\ \E i \in Indices("create", "kb") : trace[i].code = 201
  /\ pc' = "done" /\ err' # NoErr

\* the step takes a later Update with the desired state of that Update into
\* the section of the companion, or past it
C33_LaterUpdate ==
  /\ op = "update" /\ unrecorded = config
  /\ pc \notin C32_CompanionStep \cup {"read", "done"}
  /\ pc' \in C32_CompanionStep \cup {"read"}

\* the claim as it stands: after a companion create that was answered by 201
\* and whose wait or plan-activity check failed, the persisted companion
\* identity stays empty, and a later Update with the same desired state
\* sends a second companion create request.
C33_SecondCreate ==
  [][ /\ C33_FailsAfterCreate =>
           state'.kibana_cluster_id = "" /\ ~state'.kibana
      /\ C33_LaterUpdate => pc' = "uk_create" ]_vars

\* C33: after a companion create that was answered by 201 and whose wait or
\* plan-activity check failed, the persisted companion identity stays empty
\* and the kibana block stays unrecorded.  A later Update with the same
\* desired state that reaches the section of the companion goes to the
\* create request, and sends it, exactly when the persisted identity is
\* still empty; when a Read in between recorded a companion the control
\* plane reports, it goes to the rename of that companion instead.
C33_SecondCreateUnlessRead ==
  [][ /\ C33_FailsAfterCreate =>
           state'.kibana_cluster_id = "" /\ ~state'.kibana
      /\ C33_LaterUpdate =>
           /\ HasChange("kibana")
           /\ d.kibana_cluster_id = "" => pc' = "uk_create"
           /\ d.kibana_cluster_id # "" => pc' = "uk_meta"
      /\ (op = "update" /\ pc = "uk_create") =>
           /\ Len(trace') = Len(trace) + 1
           /\ trace'[Len(trace')].k = "create" /\ trace'[Len(trace')].t = "kb"
           /\ req' = CreateKibanaRequest(d.id) ]_vars

\* the later Update has sent the second create request
C33_Witness ==
  /\ op = "update" /\ unrecorded = config
  /\ Count("create", "kb") = 1
  /\ state.kibana_cluster_id = ""

-----------------------------------------------------------------------------
(* C34 *)

\* the step is the read of resourceElasticsearchClusterRead, answered by the
\* information of the cluster
C34_ReadsInfo ==
  /\ pc = "read" /\ op \in {"read", "create", "update"}
  /\ Len(trace') = Len(trace) + 1
  /\ resp'.code = 200 /\ resp'.body.t = "info"

\* C34: a Read whose answer reports associated Kibana clusters sets the
\* companion identity, in the ResourceData and in the persisted state, to the
\* first of them; a Read whose answer reports none leaves the companion
\* identity as it was, so that a refresh never clears a persisted one.
C34_ReadKeepsCompanion ==
  [][ C34_ReadsInfo =>
        LET ks == resp'.body.kibanas IN
        /\ pc' = "done" /\ err' = NoErr
        /\ ks # <<>> =>
             d'.kibana_cluster_id = ks[1] /\ state'.kibana_cluster_id = ks[1]
        /\ ks = <<>> =>
             /\ d'.kibana_cluster_id = d.kibana_cluster_id
             /\ state'.kibana_cluster_id = d.kibana_cluster_id
             /\ op = "read" => state'.kibana_cluster_id = state.kibana_cluster_id ]_vars

\* a refresh that was told of no Kibana cluster kept the persisted identity
C34_Witness ==
  /\ op = "read" /\ pc = "done" /\ err = NoErr
  /\ resp.code = 200 /\ resp.body.t = "info" /\ resp.body.kibanas = <<>>
  /\ state.kibana_cluster_id = KbId

-----------------------------------------------------------------------------
(* C35 *)

\* the value of a number of an element: the one it gives, else the default
C35_Number(elementMap, k, default) ==
  IF k \in DOMAIN elementMap THEN elementMap[k] ELSE default

\* C35: the expansion of a non-empty cluster_topology list of n elements has
\* n elements; its i-th element has the memory, the node count per zone and
\* the zone count that the i-th element of the list gives and, where that
\* element gives none, 1024, 1 and 1, and the roles that the role sub-tree
\* of the i-th element gives over the default roles; nothing of it comes
\* from another element of the list.
C35_TopologyShape ==
  (Expanded /\ InputTopology # <<>>) =>
    /\ Len(req.cluster_topology) = Len(InputTopology)
    /\ \A i \in 1..Len(InputTopology) :
         req.cluster_topology[i] =
           [memory_per_node |-> C35_Number(InputElement(i), "memory_per_node", 1024),
            node_count_per_zone |-> C35_Number(InputElement(i), "node_count_per_zone", 1),
            zone_count |-> C35_Number(InputElement(i), "zone_count", 1),
            node_type |-> [k \in Roles |->
                             IF k \in DOMAIN GivenRoles(i) THEN GivenRoles(i)[k]
                             ELSE k # "ml"]]

\* a list of two: the first element gives every field, the second none, and
\* the second expanded element has the defaults
C35_Witness ==
  /\ Expanded
  /\ Len(InputTopology) = 2
  /\ DOMAIN InputElement(1) =
       {"memory_per_node", "node_count_per_zone", "node_type", "zone_count"}
  /\ InputElement(1).memory_per_node = 2048
  /\ InputElement(1).zone_count = 2
  /\ DOMAIN InputElement(2) = {}
  /\ req.cluster_topology[1].memory_per_node = 2048
  /\ req.cluster_topology[2].memory_per_node = 1024
  /\ req.cluster_topology[2].zone_count = 1

-----------------------------------------------------------------------------
(* C36 *)

\* the step is a call of Login
C36_LogsIn == req'.t = "request" /\ req'.operation = "Login"

\* the answer is 200 with a body that decodes to a token response
C36_Granted(r) == r.code = 200 /\ r.body.t = "token"

\* C36: a call of Login whose request is answered by 200 with a decodable
\* body returns no error and stores the token of the body in the client; a
\* call whose request gets no response, another status (another 2xx
\* included) or a body that does not decode returns an error and leaves the
\* token, and the rest of the client, as it was.
C36_LoginToken ==
  [][ C36_LogsIn =>
        /\ C36_Granted(resp') =>
             /\ err' = NoErr
             /\ client' = [client EXCEPT !.AuthToken = resp'.body.token]
        /\ ~C36_Granted(resp') =>
             /\ err' # NoErr
             /\ client' = client ]_vars

\* a client that holds a token from one Login kept it through a Login that
\* was refused
C36_Witness ==
  /\ req.t = "request" /\ req.operation = "Login"
  /\ resp.code = 401
  /\ err.kind = "operation"
  /\ client.AuthToken = "t2"

-----------------------------------------------------------------------------
(* Settings documents (util.go): diffSuppressClusterSettings compares two   *)
(* JSON documents after it has normalized their "settings" maps.  A key is  *)
(* kept as the sequence of the segments its dots separate, so that k + "."  *)
(* + k2 is the concatenation of two keys.                                   *)

\* a decoded JSON leaf: a number (float64), a string or a bool
Num(n) == [j |-> "number", n |-> n]
Str(s) == [j |-> "string", s |-> s]
Bool(b) == [j |-> "bool", b |-> b]

\* v.(map[string]interface{}) succeeds
IsMap(v) == "map" \in DOMAIN v

\* a string that json.Unmarshal rejects
Invalid == [invalid |-> TRUE]

\* what the verb %v prints for the numbers of the model
Numbers == {1, 2}
NumberText == [n \in Numbers |-> IF n = 1 THEN "1" ELSE "2"]

\* fmt.Sprintf("%v", v)
Sprintf(v) ==
  CASE v.j = "number" -> Str(NumberText[v.n])
    [] v.j = "bool" -> Str(IF v.b THEN "true" ELSE "false")
    [] OTHER -> v

RECURSIVE FlatEntries(_)
\* the assignments f[key] = value that flattenMap makes for the map m
FlatEntries(m) ==
  UNION { IF IsMap(m[k])
            THEN {<<k \o e[1], e[2]>> : e \in FlatEntries(m[k].map)}
            ELSE {<<k, m[k]>>} : k \in DOMAIN m }

\* flattenMap: the maps it can return.  Go ranges over a map in no fixed
\* order, so where two entries flatten to one key either assignment can be
\* the last one.
flattenMap(m) ==
  LET entries == FlatEntries(m)
      keys == {e[1] : e \in entries}
  IN {f \in [keys -> {e[2] : e \in entries}] :
        \A k \in keys : <<k, f[k]>> \in entries}

\* strings.HasPrefix(k, "index.")
HasIndexPrefix(k) == Len(k) >= 2 /\ k[1] = "index"

\* "index." + k where k lacks the prefix
WithIndexPrefix(k) == IF HasIndexPrefix(k) THEN k ELSE <<"index">> \o k

\* the loop of normalizedClusterSettings over the flattened map f: every
\* value becomes its printed form, and an entry whose key lacks the prefix
\* is written under the prefixed key and deleted, whatever was there
normalizedEntries(f) ==
  [K \in {WithIndexPrefix(k) : k \in DOMAIN f} |->
     IF \E k \in DOMAIN f : ~HasIndexPrefix(k) /\ WithIndexPrefix(k) = K
     THEN Sprintf(f[CHOOSE k \in DOMAIN f : ~HasIndexPrefix(k) /\ WithIndexPrefix(k) = K])
     ELSE Sprintf(f[K])]

\* the maps normalizedClusterSettings can return
normalizedClusterSettings(settings) ==
  {normalizedEntries(f) : f \in flattenMap(settings)}

\* the documents normalizeClusterSettings can leave in tpl
normalizeClusterSettings(tpl) ==
  IF "settings" \in DOMAIN tpl /\ IsMap(tpl.settings)
  THEN {[tpl EXCEPT !.settings = Map(n)] :
          n \in normalizedClusterSettings(tpl.settings.map)}
  ELSE {tpl}

\* the values diffSuppressClusterSettings can compare, and its result
diffSuppressClusterSettings(old, new) ==
  LET normalized(doc) ==
        IF IsMap(doc) THEN {Map(t) : t \in normalizeClusterSettings(doc.map)}
        ELSE {doc}
  IN IF old = Invalid \/ new = Invalid
     THEN {[t |-> "diff", old |-> old, new |-> new, equal |-> FALSE]}
     ELSE {[t |-> "diff", old |-> oo, new |-> no, equal |-> (oo = no)] :
             oo \in normalized(old), no \in normalized(new)}

\* the values of a setting
SettingValues == {Num(1), Str("1"), Str("x"), Bool(TRUE), Str("true")}

\* the ways of writing the setting a.b: dotted, nested, and each of the two
\* under "index"
SettingForms(v) ==
  { <<"a", "b">> :> v,
    <<"a">> :> Map(<<"b">> :> v),
    <<"index", "a", "b">> :> v,
    <<"index">> :> Map(<<"a">> :> Map(<<"b">> :> v)) }

\* settings maps: one setting in each form, and maps in which two entries
\* meet in one key, a key holds the prefix twice, or a nested map is empty
SettingsMaps ==
  UNION {SettingForms(v) : v \in SettingValues}
  \cup { (<<"a">> :> Map(<<"b">> :> Num(1))) @@ (<<"a", "b">> :> Str("x")),
         (<<"a", "b">> :> Num(1)) @@ (<<"index", "a", "b">> :> Str("x")),
         <<"index", "index", "a", "b">> :> Num(1),
         <<"a">> :> Map(NoKeys) }

\* the documents: a settings map alone or beside another entry, a document
\* without settings or whose settings are no map, and an invalid one
SettingsDocuments ==
  {Map([settings |-> Map(m)]) : m \in SettingsMaps}
  \cup {Map([settings |-> Map(<<"a", "b">> :> Num(1)), order |-> o]) :
          o \in {Num(1), Str("1")}}
  \cup {Map([order |-> Num(1)]), Map([settings |-> Str("x")]), Str("x"), Invalid}

SettingsInit ==
  /\ state = EmptyAttrs
  /\ res = ""
  /\ \E o \in SettingsDocuments, n \in SettingsDocuments :
       config = [old |-> o, new |-> n]
  /\ d = EmptyAttrs
  /\ partial = NoPartial
  /\ op = "diff"
  /\ pc = "s_diff"
  /\ crud = NoBody
  /\ kid = ""
  /\ polls = 0
  /\ trace = <<>>
  /\ req = NoBody
  /\ resp = Resp(0, NoBody)
  /\ client = ECEClient(FALSE)
  /\ other = Idle(EmptyAttrs, "")
  /\ unrecorded = NoConfig
  /\ err = NoErr

\* diffSuppressClusterSettings on the two documents
DiffSuppress ==
  /\ pc = "s_diff"
  /\ \E r \in diffSuppressClusterSettings(config.old, config.new) : req' = r
  /\ pc' = "s_again"
  /\ UNCHANGED <<client, other, unrecorded, state, res, config, d, partial, op, crud, kid, polls,
                 trace, resp, err>>

\* the settings map that normalizeClusterSettings left in a document
NormalizedSettings(doc) ==
  IF doc # Invalid /\ IsMap(doc) /\ "settings" \in DOMAIN doc.map
       /\ IsMap(doc.map.settings)
  THEN {doc.map.settings.map} ELSE {}

\* normalizedClusterSettings on a map it has returned
NormalizeAgain ==
  /\ pc = "s_again"
  /\ Invalid \notin {req.old, req.new}
  /\ \E m \in NormalizedSettings(req.old) \cup NormalizedSettings(req.new) :
       \E n \in normalizedClusterSettings(m) :
         crud' = [t |-> "settings", first |-> m, second |-> n]
  /\ pc' = "done"
  /\ UNCHANGED <<client, other, unrecorded, state, res, config, d, partial, op, kid, polls,
                 trace, req, resp, err>>

SettingsNext == DiffSuppress \/ NormalizeAgain

SettingsSpec == SettingsInit /\ [][SettingsNext]_vars

-----------------------------------------------------------------------------
(* C37 *)

RECURSIVE C37_Leaves(_)
\* the settings a map holds: the full key of each leaf, and the leaf
C37_Leaves(m) ==
  UNION { IF IsMap(m[k])
            THEN {<<k \o e[1], e[2]>> : e \in C37_Leaves(m[k].map)}
            ELSE {<<k, m[k]>>} : k \in DOMAIN m }

\* a key without the prefix "index."
C37_Bare(k) == IF HasIndexPrefix(k) THEN Tail(k) ELSE k

\* what a settings map says: each setting under its key without the prefix,
\* with the printed form of its value
C37_Meaning(m) == {<<C37_Bare(e[1]), Sprintf(e[2]).s>> : e \in C37_Leaves(m)}

C37_HasSettings(doc) == NormalizedSettings(doc) # {}

C37_Rest(doc) == [k \in DOMAIN doc.map \ {"settings"} |-> doc.map[k]]

\* the two documents differ only in how their settings are written
C37_SameSettings(old, new) ==
  /\ C37_HasSettings(old) /\ C37_HasSettings(new)
  /\ C37_Rest(old) = C37_Rest(new)
  /\ C37_Meaning(old.map.settings.map) = C37_Meaning(new.map.settings.map)

\* C37 (as claimed): two documents whose settings differ only in writing a
\* key nested or dotted, with or without the prefix "index.", or in the type
\* of a value with the same printed form are reported equal by
\* diffSuppressClusterSettings, and normalizedClusterSettings returns a map
\* it has returned unchanged.
C37_SettingsNormalization ==
  /\ (op = "diff" /\ pc \in {"s_again", "done"}
        /\ C37_SameSettings(config.old, config.new)) => req.equal
  /\ (op = "diff" /\ pc = "done") => crud.second = crud.first

-----------------------------------------------------------------------------
(* Topology size (part_011): expandTopologySizeFromMap converts the "value" *)
(* of the configuration, a Go int of 64 bits, to the int32 of               *)
(* TopologySize.Value.  A Go int is kept as its three limbs:                *)
(* a * 2^32 + b * 2^16 + c, with b and c in 0 .. 2^16 - 1 and a the signed  *)
(* upper half.                                                              *)

Limb == 2^16

GoInt(a, b, c) == [a |-> a, b |-> b, c |-> c]

\* the conversion int32(v) of Go: the lower 32 bits, read as a signed number
int32(v) ==
  IF v.b < Limb \div 2 THEN v.b * Limb + v.c
  ELSE (v.b - Limb) * Limb + v.c

\* the Go int that has the value of the int32 n
IntOf(n) ==
  IF n >= 0 THEN GoInt(0, n \div Limb, n % Limb)
  ELSE GoInt(-1, Limb + (n \div Limb), n % Limb)

expandTopologySizeFromMap(topologySize, topologySizeMap) ==
  LET s1 == IF "resource" \in DOMAIN topologySizeMap
            THEN [topologySize EXCEPT !.resource = topologySizeMap.resource]
            ELSE topologySize
  IN IF "value" \in DOMAIN topologySizeMap
     THEN [s1 EXCEPT !.value = int32(topologySizeMap.value)]
     ELSE s1

\* the size part of the loop body of expandElasticsearchClusterTopology
expandElementSize(elementMap) ==
  IF "size" \in DOMAIN elementMap
  THEN LET topologySizeMaps == elementMap.size.list IN
       IF Len(topologySizeMaps) > 0
       THEN expandTopologySizeFromMap(DefaultTopologySize, topologySizeMaps[1].map)
       ELSE DefaultTopologySize
  ELSE DefaultTopologySize

\* the values of "value": small ones, those around the ends of the int32
\* range, and some that need more than 32 bits
SizeValues ==
  {GoInt(a, b, c) : a \in {-1, 0, 1},
                  b \in {0, 1, Limb \div 2 - 1, Limb \div 2, Limb - 1},
                  c \in {0, 1024, Limb - 1}}

SizeMaps ==
  {r @@ v : r \in Field("resource", {"memory", "storage"}),
            v \in Field("value", SizeValues)}

SizeElements ==
  {NoKeys, "size" :> List(<<>>)} \cup {"size" :> List(<<Map(m)>>) : m \in SizeMaps}

SizeInit ==
  /\ state = EmptyAttrs
  /\ res = ""
  /\ \E e \in SizeElements : config = [element |-> e]
  /\ d = EmptyAttrs
  /\ partial = NoPartial
  /\ op = "size"
  /\ pc = "z_expand"
  /\ crud = NoBody
  /\ kid = ""
  /\ polls = 0
  /\ trace = <<>>
  /\ req = NoBody
  /\ resp = Resp(0, NoBody)
  /\ client = ECEClient(TRUE)
  /\ other = Idle(EmptyAttrs, "")
  /\ unrecorded = NoConfig
  /\ err = NoErr

\* clusterTopologyElement.Size = *topologySize
ExpandSize ==
  /\ pc = "z_expand"
  /\ req' = [t |-> "size", size |-> expandElementSize(config.element)]
  /\ pc' = "done"
  /\ UNCHANGED <<client, other, unrecorded, state, res, config, d, partial, op, crud, kid, polls,
                 trace, resp, err>>

SizeNext == ExpandSize

SizeSpec == SizeInit /\ [][SizeNext]_vars

-----------------------------------------------------------------------------
(* C38 *)

\* the element of the configuration gives a size value
C38_Given ==
  /\ "size" \in DOMAIN config.element
  /\ config.element.size.list # <<>>
  /\ "value" \in DOMAIN config.element.size.list[1].map

C38_Value == config.element.size.list[1].map.value

\* C38 (as claimed): the expanded 32-bit size value is the integer the
\* configuration gives, whatever that integer is: a value outside the range
\* of a signed 32-bit number is not turned into another number.
C38_SizeKept ==
  (op = "size" /\ pc = "done" /\ C38_Given) => IntOf(req.size.value) = C38_Value

====
